---- MODULE Spec2Model ----
(***************************************************************************)
(* A state-machine model of the jobhunter backend (FastAPI handlers over   *)
(* CRUD objects over database tables).  Each table is a function from row  *)
(* ids to rows (NoRow where no row is stored); each HTTP handler is one    *)
(* action that reads the tables, decides a status code and writes the      *)
(* tables; `resp` holds the response of the last handler that ran.         *)
(* Handlers whose check and write are separated by a suspension point are  *)
(* modelled in two steps (see the concurrent specifications below).        *)
(***************************************************************************)
EXTENDS Integers, Sequences, FiniteSets, TLC

VARIABLES
    users,      \* table "users": id -> row | NoRow
    nextUid,    \* next id the database hands out for a user row (ids are never reused)
    removed,    \* ids of the user rows delete_user has removed
    jobs,       \* table "jobs": id -> row | NoRow
    apps,       \* table "job_applications": id -> row | NoRow
    vreqs,      \* table "verification_requests": id -> row | NoRow
    nextRid,    \* next id for a verification request
    profile,    \* users.profile_verification: user id -> [status, verified_fields]
    docs,       \* document records of verification requests: set of [id, request_id]
    clock,      \* datetime.utcnow(), as a counter
    pend,       \* handlers suspended between their check and their write: proc -> record
    companies,  \* table "companies": id -> row | NoRow
    payments,   \* table "payments": id -> row | NoRow
    skills,     \* table "skills": id -> row | NoRow
    benefits,   \* table "benefits": id -> row | NoRow
    notifications, \* table "notifications": the rows in the order of created_at
    batch,      \* the batch_upload_documents call: its position, locals and result
    resp        \* the response of the last handler that ran

vars == << users, nextUid, removed, jobs, apps, vreqs, nextRid, profile, docs,
           clock, pend, companies, payments, skills, benefits, notifications, batch, resp >>

(***************************************************************************)
(* Bounds of the model.                                                    *)
(***************************************************************************)
MaxUsers == 3
MaxRows == 2
MaxClock == 2
MaxFiles == 3
MaxSkills == 3

UserIds == 1 .. MaxUsers
JobIds == 1 .. MaxRows
AppIds == 1 .. MaxRows
ReqIds == 1 .. MaxRows
CompanyIds == 1 .. MaxRows
PaymentIds == 1 .. MaxRows
SkillIds == 1 .. MaxSkills
Procs == {"p1", "p2"}

NoRow == [absent |-> TRUE]
Unset == "unset"
Emails == {"a@x", "b@x"}
Roles == {"job_seeker", "employer"}

Stored(table) == {i \in DOMAIN table : table[i] # NoRow}

\* A response: the handler, the bearer token and the id the request carried, the
\* status code answered and the branch of the handler that answered.
\* No bearer token (an open endpoint); sub 0 is no user id.
NoToken == [sub |-> 0, kind |-> "none"]
NoResp == [op |-> "none", tok |-> NoToken, target |-> 0, status |-> 0, info |-> "none"]
Response(op, tok, target, status, info) ==
    [op |-> op, tok |-> tok, target |-> target, status |-> status, info |-> info]

(***************************************************************************)
(* Authentication: api/deps.py.                                            *)
(***************************************************************************)
\* A bearer token: the user id in its "sub" claim and whether jwt.decode accepts it.
TokenKinds == {"valid", "badsig", "malformed"}
Tokens == [sub : UserIds, kind : TokenKinds]
ValidToken(uid) == [sub |-> uid, kind |-> "valid"]

\* The mutant reads the "sub" claim without checking the token's signature.
get_current_user_NoSignature(us, tok) ==
    IF us[tok.sub] = NoRow THEN [status |-> 401, uid |-> 0]
    ELSE IF ~us[tok.sub].is_active THEN [status |-> 400, uid |-> 0]
    ELSE [status |-> 200, uid |-> tok.sub]

\* get_current_user: 401 when jwt.decode fails or the "sub" row is not stored,
\* 400 for an inactive user, else the user.
get_current_user(us, tok) ==
    IF tok.kind # "valid" THEN [status |-> 401, uid |-> 0]
    ELSE IF us[tok.sub] = NoRow THEN [status |-> 401, uid |-> 0]
    ELSE IF ~us[tok.sub].is_active THEN [status |-> 400, uid |-> 0]
    ELSE [status |-> 200, uid |-> tok.sub]

\* get_current_active_user is imported by the endpoints but defined in no source
\* file; it is taken to resolve the caller as get_current_user does (which
\* already rejects inactive users).
get_current_active_user(us, tok) == get_current_user(us, tok)

(***************************************************************************)
(* Users: crud/crud_user.py, api/v1/endpoints/auth.py, users.py.           *)
(***************************************************************************)
AdminRow == [email |-> "admin@x", is_active |-> TRUE, is_superuser |-> TRUE,
             role |-> "job_seeker"]

\* UserCreate bodies (schemas/user.py: email, role, is_active, is_superuser are
\* all client-settable fields of UserProfileBase).
UserCreateInputs ==
    [email : Emails, is_active : BOOLEAN, is_superuser : BOOLEAN, role : Roles]
\* UserUpdate bodies: email is optional; role / is_active / is_superuser are no fields.
UserUpdateInputs == [email : Emails \cup {Unset}]

\* CRUDUser.get_by_email: the ids of the rows with that email.
get_by_email(us, email) == {i \in Stored(us) : us[i].email = email}

\* CRUDUser.create: insert the row as given (no look-up of the email).
crud_user_create(us, uid, user_in) == [us EXCEPT ![uid] = user_in]

\* CRUDUser.update: write the fields that were set to the row with db_obj.id.
crud_user_update(us, uid, upd) ==
    IF upd.email = Unset THEN us
    ELSE [us EXCEPT ![uid] = [@ EXCEPT !.email = upd.email]]

\* CRUDBase.remove: delete the row with that id.
crud_remove(table, id) == [table EXCEPT ![id] = NoRow]

UsersFrame == UNCHANGED << jobs, apps, vreqs, nextRid, profile, docs, clock, pend,
                           companies, payments, skills, benefits, notifications, batch >>

DupInfo(us, email) == IF get_by_email(us, email) # {} THEN "dup_email" ELSE "new_email"

\* POST /auth/register: crud_user.create directly; only a ValueError becomes 400.
register(user_in) ==
    /\ nextUid <= MaxUsers
    /\ users' = crud_user_create(users, nextUid, user_in)
    /\ nextUid' = nextUid + 1
    /\ resp' = Response("register", NoToken, nextUid, 200, DupInfo(users, user_in.email))
    /\ UNCHANGED removed
    /\ UsersFrame

\* POST /users/: superuser only, 400 when the email is stored.
create_user(tok, user_in) ==
    LET a == get_current_active_user(users, tok) IN
    /\ IF a.status # 200 THEN
          /\ resp' = Response("create_user", tok, 0, a.status, "auth")
          /\ UNCHANGED << users, nextUid >>
       ELSE IF ~users[a.uid].is_superuser THEN
          /\ resp' = Response("create_user", tok, 0, 403, "perm")
          /\ UNCHANGED << users, nextUid >>
       ELSE IF get_by_email(users, user_in.email) # {} THEN
          /\ resp' = Response("create_user", tok, 0, 400, "dup_email")
          /\ UNCHANGED << users, nextUid >>
       ELSE
          /\ nextUid <= MaxUsers
          /\ users' = crud_user_create(users, nextUid, user_in)
          /\ nextUid' = nextUid + 1
          /\ resp' = Response("create_user", tok, nextUid, 200, "new_email")
    /\ UNCHANGED removed
    /\ UsersFrame

\* PUT /users/me: crud_user.update on the caller's own row.
update_user_me(tok, upd) ==
    LET a == get_current_active_user(users, tok) IN
    /\ IF a.status # 200 THEN
          /\ resp' = Response("update_user_me", tok, 0, a.status, "auth")
          /\ UNCHANGED users
       ELSE
          /\ users' = crud_user_update(users, a.uid, upd)
          /\ resp' = Response("update_user_me", tok, a.uid, 200, "ok")
    /\ UNCHANGED << nextUid, removed >>
    /\ UsersFrame

\* PUT /users/{user_id}: superuser only, 404 when the row is not stored.
update_user(tok, id, upd) ==
    LET a == get_current_active_user(users, tok) IN
    /\ IF a.status # 200 THEN
          /\ resp' = Response("update_user", tok, id, a.status, "auth")
          /\ UNCHANGED users
       ELSE IF ~users[a.uid].is_superuser THEN
          /\ resp' = Response("update_user", tok, id, 403, "perm")
          /\ UNCHANGED users
       ELSE IF users[id] = NoRow THEN
          /\ resp' = Response("update_user", tok, id, 404, "missing")
          /\ UNCHANGED users
       ELSE
          /\ users' = crud_user_update(users, id, upd)
          /\ resp' = Response("update_user", tok, id, 200, "ok")
    /\ UNCHANGED << nextUid, removed >>
    /\ UsersFrame

\* DELETE /users/{user_id}: superuser only, 404 when the row is not stored.
delete_user(tok, id) ==
    LET a == get_current_active_user(users, tok) IN
    /\ IF a.status # 200 THEN
          /\ resp' = Response("delete_user", tok, id, a.status, "auth")
          /\ UNCHANGED << users, removed >>
       ELSE IF ~users[a.uid].is_superuser THEN
          /\ resp' = Response("delete_user", tok, id, 403, "perm")
          /\ UNCHANGED << users, removed >>
       ELSE IF users[id] = NoRow THEN
          /\ resp' = Response("delete_user", tok, id, 404, "missing")
          /\ UNCHANGED << users, removed >>
       ELSE
          /\ users' = crud_remove(users, id)
          /\ removed' = removed \cup {id}
          /\ resp' = Response("delete_user", tok, id, 200, "ok")
    /\ UNCHANGED nextUid
    /\ UsersFrame

(***************************************************************************)
(* Initial tables.                                                         *)
(***************************************************************************)
\* The seeded database: the admin user of db/init_db.py and create_admin.py.
SeedUsers == [i \in UserIds |-> IF i = 1 THEN AdminRow ELSE NoRow]
\* User.profile_verification before any review has written it.
EmptyProfile == [status |-> "unverified", verified_fields |-> {}, verified_by |-> "none"]
IdleBatch == [pc |-> "idle"]

InitCommon ==
    /\ users = SeedUsers
    /\ nextUid = 2
    /\ removed = {}
    /\ jobs = [j \in JobIds |-> NoRow]
    /\ apps = [a \in AppIds |-> NoRow]
    /\ vreqs = [r \in ReqIds |-> NoRow]
    /\ nextRid = 1
    /\ profile = [u \in UserIds |-> EmptyProfile]
    /\ docs = {}
    /\ clock = 0
    /\ pend = [p \in Procs |-> [pc |-> "idle"]]
    /\ companies = [c \in CompanyIds |-> NoRow]
    /\ payments = [c \in PaymentIds |-> NoRow]
    /\ skills = [k \in SkillIds |-> NoRow]
    /\ benefits = [k \in SkillIds |-> NoRow]
    /\ notifications = << >>
    /\ batch = IdleBatch
    /\ resp = NoResp

(***************************************************************************)
(* SpecUsers: the user endpoints.                                          *)
(***************************************************************************)
\* The bodies the user requests are drawn from: every email, both privilege levels.
UsersCreateInputs == {u \in UserCreateInputs : u.is_active /\ u.role = "job_seeker"}
UsersTokens == {t \in Tokens : t.kind = "valid"}

NextUsers ==
    \/ \E user_in \in UsersCreateInputs : register(user_in)
    \/ \E tok \in UsersTokens, user_in \in UsersCreateInputs : create_user(tok, user_in)
    \/ \E tok \in UsersTokens, upd \in UserUpdateInputs : update_user_me(tok, upd)
    \/ \E tok \in UsersTokens, id \in UserIds, upd \in UserUpdateInputs : update_user(tok, id, upd)
    \/ \E tok \in UsersTokens, id \in UserIds : delete_user(tok, id)

SpecUsers == InitCommon /\ [][NextUsers]_vars

\* C1: after any sequence of register, create_user, update_user_me and update_user
\* requests no two stored users have the same email, and a register or create_user
\* request whose email already belongs to a stored user is answered 400.
C1_EmailUnique ==
    /\ \A i, j \in Stored(users) : i # j => users[i].email # users[j].email
    /\ (resp.op \in {"register", "create_user"} /\ resp.info = "dup_email") => resp.status = 400

(***************************************************************************)
(* Jobs: api/v1/endpoints/jobs.py, crud/crud_job.py.                       *)
(***************************************************************************)
Titles == {"t1", "t2"}
JobCreateInputs == [title : Titles]
\* JobUpdate: every field optional, written with exclude_unset; no employer_id field.
JobUpdateInputs == [title : Titles \cup {Unset}]

\* A row id the table does not hold (the database generates the key).
FreeIds(table) == DOMAIN table \ Stored(table)
NewId(table) == CHOOSE i \in FreeIds(table) : \A k \in FreeIds(table) : i <= k

\* The mutant lets every authenticated caller through.
job_owner_AnyCaller(job, uid) == TRUE

\* update_job / delete_job: "if job.employer_id != current_user.id: raise 403".
job_owner(job, uid) == job.employer_id = uid

\* CRUDJob.create: the row of the request with employer_id set to the caller.
crud_job_create(js, id, job_in, employer_id) ==
    [js EXCEPT ![id] = [employer_id |-> employer_id, title |-> job_in.title,
                        is_active |-> TRUE]]

\* CRUDJob.update: write the fields that were set to the row with that id.
crud_job_update(js, id, job_in) ==
    IF job_in.title = Unset THEN js
    ELSE [js EXCEPT ![id] = [@ EXCEPT !.title = job_in.title]]

JobsFrame == UNCHANGED << users, nextUid, removed, apps, vreqs, nextRid, profile, docs,
                          clock, pend, companies, payments, skills, benefits, notifications, batch >>

\* POST /jobs/: any authenticated user; employer_id is the caller's id.
create_job(tok, job_in) ==
    LET a == get_current_user(users, tok) IN
    /\ IF a.status # 200 THEN
          /\ resp' = Response("create_job", tok, 0, a.status, "auth")
          /\ UNCHANGED jobs
       ELSE
          /\ FreeIds(jobs) # {}
          /\ jobs' = crud_job_create(jobs, NewId(jobs), job_in, a.uid)
          /\ resp' = Response("create_job", tok, NewId(jobs), 200, "ok")
    /\ JobsFrame

\* PUT /jobs/{job_id}: 404 when not stored, 403 when the caller is not the employer.
update_job(tok, id, job_in) ==
    LET a == get_current_user(users, tok) IN
    /\ IF a.status # 200 THEN
          /\ resp' = Response("update_job", tok, id, a.status, "auth")
          /\ UNCHANGED jobs
       ELSE IF jobs[id] = NoRow THEN
          /\ resp' = Response("update_job", tok, id, 404, "missing")
          /\ UNCHANGED jobs
       ELSE IF ~job_owner(jobs[id], a.uid) THEN
          /\ resp' = Response("update_job", tok, id, 403, "perm")
          /\ UNCHANGED jobs
       ELSE
          /\ jobs' = crud_job_update(jobs, id, job_in)
          /\ resp' = Response("update_job", tok, id, 200, "ok")
    /\ JobsFrame

\* DELETE /jobs/{job_id}: 404 when not stored, 403 when the caller is not the employer.
delete_job(tok, id) ==
    LET a == get_current_user(users, tok) IN
    /\ IF a.status # 200 THEN
          /\ resp' = Response("delete_job", tok, id, a.status, "auth")
          /\ UNCHANGED jobs
       ELSE IF jobs[id] = NoRow THEN
          /\ resp' = Response("delete_job", tok, id, 404, "missing")
          /\ UNCHANGED jobs
       ELSE IF ~job_owner(jobs[id], a.uid) THEN
          /\ resp' = Response("delete_job", tok, id, 403, "perm")
          /\ UNCHANGED jobs
       ELSE
          /\ jobs' = crud_remove(jobs, id)
          /\ resp' = Response("delete_job", tok, id, 200, "ok")
    /\ JobsFrame

(***************************************************************************)
(* SpecJobs: the job endpoints, called by the registered users.            *)
(***************************************************************************)
RegularRow == [email |-> "a@x", is_active |-> TRUE, is_superuser |-> FALSE,
               role |-> "employer"]
\* The admin and one registered user per remaining id.
RegisteredUsers == [i \in UserIds |-> IF i = 1 THEN AdminRow ELSE RegularRow]
ValidTokens == {t \in Tokens : t.kind = "valid"}

InitJobs ==
    /\ users = RegisteredUsers
    /\ nextUid = MaxUsers + 1
    /\ removed = {}
    /\ jobs = [j \in JobIds |-> NoRow]
    /\ apps = [a \in AppIds |-> NoRow]
    /\ vreqs = [r \in ReqIds |-> NoRow]
    /\ nextRid = 1
    /\ profile = [u \in UserIds |-> EmptyProfile]
    /\ docs = {}
    /\ clock = 0
    /\ pend = [p \in Procs |-> [pc |-> "idle"]]
    /\ companies = [c \in CompanyIds |-> NoRow]
    /\ payments = [c \in PaymentIds |-> NoRow]
    /\ skills = [k \in SkillIds |-> NoRow]
    /\ benefits = [k \in SkillIds |-> NoRow]
    /\ notifications = << >>
    /\ batch = IdleBatch
    /\ resp = NoResp

NextJobs ==
    \/ \E tok \in ValidTokens, job_in \in JobCreateInputs : create_job(tok, job_in)
    \/ \E tok \in ValidTokens, id \in JobIds, job_in \in JobUpdateInputs : update_job(tok, id, job_in)
    \/ \E tok \in ValidTokens, id \in JobIds : delete_job(tok, id)

SpecJobs == InitJobs /\ [][NextJobs]_vars

\* C2: update_job and delete_job modify or remove a job only when the caller's id
\* equals the job's employer_id; any other authenticated caller is answered 403 and
\* the stored job is unchanged; a job id that is not stored is answered 404.
C2_OwnerOnly ==
    [][ /\ (\E j \in JobIds : jobs[j] # NoRow /\ jobs'[j] # jobs[j]) =>
              /\ resp'.op \in {"update_job", "delete_job"}
              /\ resp'.status = 200
              /\ jobs[resp'.target] # NoRow
              /\ jobs[resp'.target].employer_id = resp'.tok.sub
              /\ \A j \in JobIds : j # resp'.target => jobs'[j] = jobs[j]
        /\ (resp'.op \in {"update_job", "delete_job"}
              /\ get_current_user(users, resp'.tok).status = 200) =>
              IF jobs[resp'.target] = NoRow
              THEN resp'.status = 404 /\ jobs' = jobs
              ELSE IF jobs[resp'.target].employer_id # resp'.tok.sub
                   THEN resp'.status = 403 /\ jobs' = jobs
                   ELSE resp'.status = 200
      ]_vars

\* A caller who is not the employer (here a superuser) was answered 403 for a stored job.
C2_Witness ==
    /\ resp.op \in {"update_job", "delete_job"}
    /\ resp.status = 403
    /\ jobs[resp.target] # NoRow
    /\ jobs[resp.target].employer_id # resp.tok.sub
    /\ users[resp.tok.sub].is_superuser

(***************************************************************************)
(* Applications: api/v1/endpoints/applications.py over CRUDBase.           *)
(***************************************************************************)
AppStatuses == {"pending", "offered"}
\* JobApplicationCreate: job_id plus the base fields (status defaults to pending).
AppCreateInputs == [job_id : JobIds, status : {"pending"}]
\* JobApplicationUpdate: the base fields, written with exclude_unset.
AppUpdateInputs == [status : AppStatuses \cup {Unset}]

\* The mutant drops the ownership half of the test: any authenticated caller passes.
app_permitted_AnyCaller(us, app, uid) == TRUE

\* "if not current_user.is_superuser and application.applicant_id != current_user.id: 403"
app_permitted(us, app, uid) == us[uid].is_superuser \/ app.applicant_id = uid

\* crud_job_application.get_by_applicant: the caller's applications.
get_by_applicant(as, uid) == {i \in Stored(as) : as[i].applicant_id = uid}

\* crud_job_application.create: the row of the request with applicant_id set.
crud_app_create(as, id, app_in, uid) ==
    [as EXCEPT ![id] = [applicant_id |-> uid, job_id |-> app_in.job_id,
                        status |-> app_in.status]]

\* CRUDBase.update: write the fields that were set to the row with db_obj.id.
crud_app_update(as, id, upd) ==
    IF upd.status = Unset THEN as
    ELSE [as EXCEPT ![id] = [@ EXCEPT !.status = upd.status]]

AppsFrame == UNCHANGED << users, nextUid, removed, jobs, vreqs, nextRid, profile, docs,
                          clock, pend, companies, payments, skills, benefits, notifications, batch >>

\* POST /applications/: 404 unless the job is stored and active, 400 when the
\* caller already has an application for the job.
create_application(tok, app_in) ==
    LET a == get_current_active_user(users, tok) IN
    /\ IF a.status # 200 THEN
          /\ resp' = Response("create_application", tok, 0, a.status, "auth")
          /\ UNCHANGED apps
       ELSE IF jobs[app_in.job_id] = NoRow \/ ~jobs[app_in.job_id].is_active THEN
          /\ resp' = Response("create_application", tok, 0, 404, "missing")
          /\ UNCHANGED apps
       ELSE IF \E i \in get_by_applicant(apps, a.uid) : apps[i].job_id = app_in.job_id THEN
          /\ resp' = Response("create_application", tok, 0, 400, "dup")
          /\ UNCHANGED apps
       ELSE
          /\ FreeIds(apps) # {}
          /\ apps' = crud_app_create(apps, NewId(apps), app_in, a.uid)
          /\ resp' = Response("create_application", tok, NewId(apps), 200, "ok")
    /\ AppsFrame

\* PUT /applications/{application_id}: 404 when not stored, 403 unless applicant or superuser.
update_application(tok, id, upd) ==
    LET a == get_current_active_user(users, tok) IN
    /\ IF a.status # 200 THEN
          /\ resp' = Response("update_application", tok, id, a.status, "auth")
          /\ UNCHANGED apps
       ELSE IF apps[id] = NoRow THEN
          /\ resp' = Response("update_application", tok, id, 404, "missing")
          /\ UNCHANGED apps
       ELSE IF ~app_permitted(users, apps[id], a.uid) THEN
          /\ resp' = Response("update_application", tok, id, 403, "perm")
          /\ UNCHANGED apps
       ELSE
          /\ apps' = crud_app_update(apps, id, upd)
          /\ resp' = Response("update_application", tok, id, 200, "ok")
    /\ AppsFrame

\* DELETE /applications/{application_id}: 404 when not stored, 403 unless applicant or superuser.
delete_application(tok, id) ==
    LET a == get_current_active_user(users, tok) IN
    /\ IF a.status # 200 THEN
          /\ resp' = Response("delete_application", tok, id, a.status, "auth")
          /\ UNCHANGED apps
       ELSE IF apps[id] = NoRow THEN
          /\ resp' = Response("delete_application", tok, id, 404, "missing")
          /\ UNCHANGED apps
       ELSE IF ~app_permitted(users, apps[id], a.uid) THEN
          /\ resp' = Response("delete_application", tok, id, 403, "perm")
          /\ UNCHANGED apps
       ELSE
          /\ apps' = crud_remove(apps, id)
          /\ resp' = Response("delete_application", tok, id, 200, "ok")
    /\ AppsFrame

(***************************************************************************)
(* SpecApps: the application endpoints over a seeded job table.            *)
(***************************************************************************)
\* Every job id holds an active job posted by user 2.
SeedJobs == [j \in JobIds |-> [employer_id |-> 2, title |-> "t1", is_active |-> TRUE]]

InitApps ==
    /\ users = RegisteredUsers
    /\ nextUid = MaxUsers + 1
    /\ removed = {}
    /\ jobs = SeedJobs
    /\ apps = [a \in AppIds |-> NoRow]
    /\ vreqs = [r \in ReqIds |-> NoRow]
    /\ nextRid = 1
    /\ profile = [u \in UserIds |-> EmptyProfile]
    /\ docs = {}
    /\ clock = 0
    /\ pend = [p \in Procs |-> [pc |-> "idle"]]
    /\ companies = [c \in CompanyIds |-> NoRow]
    /\ payments = [c \in PaymentIds |-> NoRow]
    /\ skills = [k \in SkillIds |-> NoRow]
    /\ benefits = [k \in SkillIds |-> NoRow]
    /\ notifications = << >>
    /\ batch = IdleBatch
    /\ resp = NoResp

NextApps ==
    \/ \E tok \in ValidTokens, app_in \in AppCreateInputs : create_application(tok, app_in)
    \/ \E tok \in ValidTokens, id \in AppIds, upd \in AppUpdateInputs :
          update_application(tok, id, upd)
    \/ \E tok \in ValidTokens, id \in AppIds : delete_application(tok, id)

SpecApps == InitApps /\ [][NextApps]_vars

\* C3: update_application and delete_application take effect only when the caller
\* is the application's applicant or a superuser; any other caller is answered 403
\* and the stored application is unchanged.
C3_ApplicantOrSuperuser ==
    [][ /\ (\E i \in AppIds : apps[i] # NoRow /\ apps'[i] # apps[i]) =>
              /\ resp'.op \in {"update_application", "delete_application"}
              /\ resp'.status = 200
              /\ apps[resp'.target] # NoRow
              /\ \/ apps[resp'.target].applicant_id = resp'.tok.sub
                 \/ users[resp'.tok.sub].is_superuser
              /\ \A i \in AppIds : i # resp'.target => apps'[i] = apps[i]
        /\ (resp'.op \in {"update_application", "delete_application"}
              /\ get_current_active_user(users, resp'.tok).status = 200
              /\ apps[resp'.target] # NoRow
              /\ apps[resp'.target].applicant_id # resp'.tok.sub
              /\ ~users[resp'.tok.sub].is_superuser) =>
              resp'.status = 403 /\ apps' = apps
      ]_vars

\* A caller who is neither the applicant nor a superuser was answered 403.
C3_Witness ==
    /\ resp.op \in {"update_application", "delete_application"}
    /\ resp.status = 403
    /\ apps[resp.target] # NoRow
    /\ apps[resp.target].applicant_id # resp.tok.sub
    /\ ~users[resp.tok.sub].is_superuser

(***************************************************************************)
(* Verification requests: api/v1/endpoints/verification.py over            *)
(* services/verification.py.  A stored request carries user_id,            *)
(* verification_type, status and reviewed_by; notes, evidence,             *)
(* rejection_reason and reviewed_at are written by the same setattr loop   *)
(* as status and reviewed_by and are not kept apart.                       *)
(***************************************************************************)
VerificationRequestStatus == {"pending", "in_review", "approved", "rejected", "cancelled"}
OpenStatuses == {"pending", "in_review"}
TerminalStatuses == {"approved", "rejected", "cancelled"}
VerificationTypes == {"identity", "education"}
\* VerificationRequestCreate: verification_type (evidence and notes are free text).
VerifCreateInputs == [verification_type : VerificationTypes]
\* VerificationRequestUpdate: status is Optional and dumped with exclude_unset.
VerifUpdateInputs == [status : VerificationRequestStatus \cup {Unset}]

\* The mutant lets every authenticated caller through the reviewer test.
is_reviewer_AnyCaller(us, uid) == TRUE

\* "if not current_user.is_superuser: raise HTTPException(status_code=403)"
is_reviewer(us, uid) == us[uid].is_superuser

\* VerificationService.create_verification_request: the row is stored as pending.
service_create_verification_request(vs, id, uid, req) ==
    [vs EXCEPT ![id] = [user_id |-> uid, verification_type |-> req.verification_type,
                        status |-> "pending", reviewed_by |-> 0]]

\* The fields of a profile that an approval of the given type marks verified.
TypeFields(vtype) ==
    IF vtype = "identity" THEN {"first_name", "last_name", "email", "phone"}
    ELSE {"education"}

\* VerificationService._update_profile_verification: extend verified_fields on
\* approval, recompute the status from the resulting list, stamp verified_by.
update_profile_verification(pr, uid, vtype, status) ==
    LET verified_fields == IF status = "approved"
                           THEN pr[uid].verified_fields \cup TypeFields(vtype)
                           ELSE pr[uid].verified_fields
    IN [pr EXCEPT ![uid] = [status |-> IF verified_fields # {} THEN "verified"
                                       ELSE "unverified",
                            verified_fields |-> verified_fields,
                            verified_by |-> "system"]]

\* VerificationService.update_verification_request: every field that was set is
\* written as given, reviewed_by is stamped.
service_update_verification_request(vs, id, upd, reviewer_id) ==
    [vs EXCEPT ![id] = [@ EXCEPT !.status = IF upd.status = Unset THEN @ ELSE upd.status,
                                 !.reviewed_by = reviewer_id]]

VerifFrame == UNCHANGED << users, nextUid, removed, jobs, apps, docs, clock, pend,
                           companies, payments, skills, benefits, notifications, batch >>

\* POST /verification/requests
create_verification_request(tok, req) ==
    LET a == get_current_active_user(users, tok) IN
    /\ IF a.status # 200 THEN
          /\ resp' = Response("create_verification_request", tok, 0, a.status, "auth")
          /\ UNCHANGED << vreqs, nextRid >>
       ELSE
          /\ nextRid \in ReqIds
          /\ vreqs' = service_create_verification_request(vreqs, nextRid, a.uid, req)
          /\ nextRid' = nextRid + 1
          /\ resp' = Response("create_verification_request", tok, nextRid, 200, "ok")
    /\ UNCHANGED profile
    /\ VerifFrame

\* PUT /verification/requests/{request_id}: 404 when not stored, then 403 unless
\* the caller is a superuser, then the service writes the update.
update_verification_request(tok, id, upd) ==
    LET a == get_current_active_user(users, tok) IN
    /\ IF a.status # 200 THEN
          /\ resp' = Response("update_verification_request", tok, id, a.status, "auth")
          /\ UNCHANGED << vreqs, profile >>
       ELSE IF vreqs[id] = NoRow THEN
          /\ resp' = Response("update_verification_request", tok, id, 404, "missing")
          /\ UNCHANGED << vreqs, profile >>
       ELSE IF ~is_reviewer(users, a.uid) THEN
          /\ resp' = Response("update_verification_request", tok, id, 403, "perm")
          /\ UNCHANGED << vreqs, profile >>
       ELSE
          /\ vreqs' = service_update_verification_request(vreqs, id, upd, a.uid)
          /\ profile' = IF upd.status \in {"approved", "rejected"}
                        THEN update_profile_verification(profile, vreqs[id].user_id,
                                 vreqs[id].verification_type, upd.status)
                        ELSE profile
          /\ resp' = Response("update_verification_request", tok, id, 200, "ok")
    /\ UNCHANGED nextRid
    /\ VerifFrame

(***************************************************************************)
(* SpecVerif: requests are created and reviewed.                           *)
(***************************************************************************)
InitVerif == InitApps

\* The callers of this specification: the seeded superuser and one regular user.
VerifTokens == {ValidToken(1), ValidToken(2)}

NextVerif ==
    \/ \E tok \in VerifTokens, req \in VerifCreateInputs :
          create_verification_request(tok, req)
    \/ \E tok \in VerifTokens, id \in ReqIds, upd \in VerifUpdateInputs :
          update_verification_request(tok, id, upd)

SpecVerif == InitVerif /\ [][NextVerif]_vars

\* C4: only a superuser changes a verification request: an update of a stored
\* request by a non-superuser is answered 403 and leaves the request and every
\* profile verification unchanged; and a stored request changes only through a
\* superuser's update.
C4_SuperuserOnly ==
    [][ /\ (resp'.op = "update_verification_request"
              /\ get_current_active_user(users, resp'.tok).status = 200
              /\ vreqs[resp'.target] # NoRow
              /\ ~users[resp'.tok.sub].is_superuser) =>
              resp'.status = 403 /\ vreqs' = vreqs /\ profile' = profile
        /\ (\E i \in ReqIds : vreqs[i] # NoRow /\ vreqs'[i] # vreqs[i]) =>
              resp'.op = "update_verification_request" /\ resp'.status = 200
              /\ users[resp'.tok.sub].is_superuser
        /\ profile' # profile =>
              resp'.op = "update_verification_request" /\ resp'.status = 200
              /\ users[resp'.tok.sub].is_superuser
      ]_vars

\* A non-superuser's update of a stored request was answered 403.
C4_Witness ==
    /\ resp.op = "update_verification_request"
    /\ resp.status = 403
    /\ vreqs[resp.target] # NoRow
    /\ ~users[resp.tok.sub].is_superuser

\* C5: a request is created pending, a request that is approved, rejected or
\* cancelled never changes status again, and no request moves from in_review
\* back to pending.
C5_StatusTransitions ==
    [][ \A i \in ReqIds :
          /\ (vreqs[i] = NoRow /\ vreqs'[i] # NoRow) => vreqs'[i].status = "pending"
          /\ (vreqs[i] # NoRow /\ vreqs[i].status \in TerminalStatuses) =>
                vreqs'[i].status = vreqs[i].status
          /\ (vreqs[i] # NoRow /\ vreqs[i].status = "in_review") =>
                vreqs'[i].status # "pending"
      ]_vars

(***************************************************************************)
(* SpecAuth: accounts come and go while bearer tokens of every kind are    *)
(* presented to protected endpoints.                                       *)
(***************************************************************************)
\* POST /auth/refresh-token: a new token for the authenticated caller, no write.
refresh_token(tok) ==
    LET a == get_current_user(users, tok) IN
    /\ resp' = Response("refresh_token", tok, 0, a.status,
                        IF a.status = 200 THEN "ok" ELSE "auth")
    /\ UNCHANGED << users, nextUid, removed, jobs, apps, vreqs, nextRid, profile, docs,
                    clock, pend, companies, payments, skills, benefits, notifications, batch >>

AuthCreateInputs == {u \in UserCreateInputs :
                        u.email = "a@x" /\ ~u.is_superuser /\ u.role = "employer"}
AuthJobInputs == {j \in JobCreateInputs : j.title = "t1"}
ProtectedOps == {"refresh_token", "create_job", "delete_user"}

NextAuth ==
    \/ \E user_in \in AuthCreateInputs : register(user_in)
    \/ \E tok \in Tokens, id \in UserIds : delete_user(tok, id)
    \/ \E tok \in Tokens : refresh_token(tok)
    \/ \E tok \in Tokens, job_in \in AuthJobInputs : create_job(tok, job_in)

SpecAuth == InitCommon /\ [][NextAuth]_vars

\* C6: a request to a protected endpoint whose token is malformed, wrongly signed
\* or names a user id that is not stored is answered 401 and changes no table;
\* a deleted user's id is never stored again, so that user's tokens stay rejected.
C6_Unauthenticated ==
    [][ /\ (resp'.op \in ProtectedOps
              /\ (resp'.tok.kind # "valid" \/ users[resp'.tok.sub] = NoRow)) =>
              /\ resp'.status = 401
              /\ users' = users /\ jobs' = jobs /\ removed' = removed
        /\ (resp'.op \in ProtectedOps /\ resp'.tok.sub \in removed) =>
              resp'.status = 401
        /\ \A u \in removed : users'[u] = NoRow
      ]_vars

\* A correctly signed token of a deleted user was answered 401.
C6_Witness ==
    /\ resp.op \in ProtectedOps
    /\ resp.tok.kind = "valid"
    /\ resp.tok.sub \in removed
    /\ resp.status = 401

(***************************************************************************)
(* Privilege and role tests: api/deps.py, dashboard.py, payments.py.       *)
(***************************************************************************)
\* deps.get_current_active_superuser: status 400 unless the caller is a superuser.
get_current_active_superuser(us, tok) ==
    LET a == get_current_user(us, tok) IN
    IF a.status # 200 THEN a
    ELSE IF ~us[a.uid].is_superuser THEN [status |-> 400, uid |-> 0]
    ELSE a

\* deps.get_current_employer: status 400 unless the caller's role is employer.
get_current_employer(us, tok) ==
    LET a == get_current_user(us, tok) IN
    IF a.status # 200 THEN a
    ELSE IF us[a.uid].role # "employer" THEN [status |-> 400, uid |-> 0]
    ELSE a

\* deps.get_current_job_seeker: status 400 unless the caller's role is job_seeker.
get_current_job_seeker(us, tok) ==
    LET a == get_current_user(us, tok) IN
    IF a.status # 200 THEN a
    ELSE IF us[a.uid].role # "job_seeker" THEN [status |-> 400, uid |-> 0]
    ELSE a

RoleDependencies ==
    {"get_current_active_superuser", "get_current_employer", "get_current_job_seeker"}

\* The branch of a response that is a privilege or role rejection.
PrivilegeRejection == "perm"

AuthzFrame == UNCHANGED << users, nextUid, removed, jobs, apps, vreqs, nextRid, profile,
                           docs, clock, pend, companies, skills, benefits, notifications, batch >>

\* A request to an endpoint that declares one of the role dependencies: the
\* dependency answers before the handler body runs.
resolve_dependency(dep, tok) ==
    LET a == get_current_user(users, tok)
        r == IF dep = "get_current_active_superuser"
             THEN get_current_active_superuser(users, tok)
             ELSE IF dep = "get_current_employer" THEN get_current_employer(users, tok)
             ELSE get_current_job_seeker(users, tok)
    IN
    /\ resp' = Response(dep, tok, 0, r.status,
                        IF a.status # 200 THEN "auth"
                        ELSE IF r.status # 200 THEN PrivilegeRejection ELSE "ok")
    /\ UNCHANGED payments
    /\ AuthzFrame

\* GET /dashboard/: 403 unless the caller is an employer.
get_employer_dashboard(tok) ==
    LET a == get_current_active_user(users, tok) IN
    /\ IF a.status # 200 THEN
          resp' = Response("get_employer_dashboard", tok, 0, a.status, "auth")
       ELSE IF users[a.uid].role # "employer" THEN
          resp' = Response("get_employer_dashboard", tok, 0, 403, PrivilegeRejection)
       ELSE
          resp' = Response("get_employer_dashboard", tok, 0, 200, "ok")
    /\ UNCHANGED payments
    /\ AuthzFrame

\* PaymentCreate: the user the payment is for (status defaults to pending).
PaymentCreateInputs == [user_id : UserIds]

\* CRUDBase.create on "payments".
crud_payment_create(ps, id, payment_in) ==
    [ps EXCEPT ![id] = [user_id |-> payment_in.user_id, status |-> "pending"]]

\* POST /payments/: 403 unless the caller is a superuser or the payment's user.
create_payment(tok, payment_in) ==
    LET a == get_current_active_user(users, tok) IN
    /\ IF a.status # 200 THEN
          /\ resp' = Response("create_payment", tok, 0, a.status, "auth")
          /\ UNCHANGED payments
       ELSE IF ~users[a.uid].is_superuser /\ payment_in.user_id # a.uid THEN
          /\ resp' = Response("create_payment", tok, 0, 403, PrivilegeRejection)
          /\ UNCHANGED payments
       ELSE
          /\ FreeIds(payments) # {}
          /\ payments' = crud_payment_create(payments, NewId(payments), payment_in)
          /\ resp' = Response("create_payment", tok, NewId(payments), 200, "ok")
    /\ AuthzFrame

(***************************************************************************)
(* SpecAuthz: users of both roles call the role-guarded endpoints.         *)
(***************************************************************************)
AuthzCreateInputs == {u \in UserCreateInputs :
                         u.email = "a@x" /\ u.is_active /\ ~u.is_superuser}

NextAuthz ==
    \/ \E user_in \in AuthzCreateInputs : register(user_in)
    \/ \E dep \in RoleDependencies, tok \in ValidTokens : resolve_dependency(dep, tok)
    \/ \E tok \in ValidTokens : get_employer_dashboard(tok)
    \/ \E tok \in ValidTokens, payment_in \in PaymentCreateInputs :
          create_payment(tok, payment_in)

SpecAuthz == InitCommon /\ [][NextAuthz]_vars

\* C7: every request rejected because the authenticated caller lacks the required
\* privilege or role is answered 403.
C7_Forbidden == resp.info = PrivilegeRejection => resp.status = 403

(***************************************************************************)
(* Companies: api/v1/endpoints/companies.py over CRUDBase.  The handlers   *)
(* are plain "def" endpoints, run one per worker thread; crud.get and      *)
(* crud.update / crud.remove are separate round trips to the table, so a   *)
(* handler is two steps with the table free to change in between.          *)
(***************************************************************************)
CompanyNames == {"c1", "c2"}
CompanyCreateInputs == [name : CompanyNames]
\* CompanyUpdate: every field optional, written with exclude_unset.
CompanyUpdateInputs == [name : CompanyNames \cup {Unset}]
IdleProc == [pc |-> "idle"]

\* CRUDCompany.create: the row of the request with created_by set.
crud_company_create(cs, id, company_in, uid) ==
    [cs EXCEPT ![id] = [name |-> company_in.name, created_by |-> uid]]

\* CRUDBase.update's UPDATE ... WHERE id = db_obj.id: the rows it returns.
update_returning(table, id) == IF table[id] = NoRow THEN {} ELSE {id}

\* CRUDBase.update on "companies": write the fields that were set.
crud_company_update(cs, id, upd) ==
    IF upd.name = Unset \/ cs[id] = NoRow THEN cs
    ELSE [cs EXCEPT ![id] = [@ EXCEPT !.name = upd.name]]

CrudFrame == UNCHANGED << users, nextUid, removed, jobs, apps, vreqs, nextRid, profile,
                          docs, clock, payments, skills, benefits, notifications, batch >>

\* POST /companies/: superuser only.
create_company(tok, company_in) ==
    LET a == get_current_active_user(users, tok) IN
    /\ IF a.status # 200 THEN
          /\ resp' = Response("create_company", tok, 0, a.status, "auth")
          /\ UNCHANGED companies
       ELSE IF ~users[a.uid].is_superuser THEN
          /\ resp' = Response("create_company", tok, 0, 403, "perm")
          /\ UNCHANGED companies
       ELSE
          /\ FreeIds(companies) # {}
          /\ companies' = crud_company_create(companies, NewId(companies), company_in, a.uid)
          /\ resp' = Response("create_company", tok, NewId(companies), 200, "ok")
    /\ UNCHANGED pend
    /\ CrudFrame

\* PUT /companies/{company_id}, up to the return of crud_company.get: 404 when
\* the row is not stored, 403 unless superuser, else on to crud_company.update.
update_company_get(p, tok, id, upd) ==
    LET a == get_current_active_user(users, tok) IN
    /\ pend[p] = IdleProc
    /\ IF a.status # 200 THEN
          /\ resp' = Response("update_company", tok, id, a.status, "auth")
          /\ UNCHANGED pend
       ELSE IF companies[id] = NoRow THEN
          /\ resp' = Response("update_company", tok, id, 404, "missing")
          /\ UNCHANGED pend
       ELSE IF ~users[a.uid].is_superuser THEN
          /\ resp' = Response("update_company", tok, id, 403, "perm")
          /\ UNCHANGED pend
       ELSE
          /\ pend' = [pend EXCEPT ![p] = [pc |-> "update", tok |-> tok, id |-> id,
                                          upd |-> upd]]
          /\ UNCHANGED resp
    /\ UNCHANGED companies
    /\ CrudFrame

\* crud_company.update and the handler's return: "response.data[0]" raises
\* IndexError when the UPDATE matched no row, which no handler catches (500).
update_company_write(p) ==
    /\ pend[p].pc = "update"
    /\ companies' = crud_company_update(companies, pend[p].id, pend[p].upd)
    /\ resp' = IF update_returning(companies, pend[p].id) = {}
               THEN Response("update_company", pend[p].tok, pend[p].id, 500, "missing")
               ELSE Response("update_company", pend[p].tok, pend[p].id, 200, "ok")
    /\ pend' = [pend EXCEPT ![p] = IdleProc]
    /\ CrudFrame

\* DELETE /companies/{company_id}, up to the return of crud_company.get.
delete_company_get(p, tok, id) ==
    LET a == get_current_active_user(users, tok) IN
    /\ pend[p] = IdleProc
    /\ IF a.status # 200 THEN
          /\ resp' = Response("delete_company", tok, id, a.status, "auth")
          /\ UNCHANGED pend
       ELSE IF companies[id] = NoRow THEN
          /\ resp' = Response("delete_company", tok, id, 404, "missing")
          /\ UNCHANGED pend
       ELSE IF ~users[a.uid].is_superuser THEN
          /\ resp' = Response("delete_company", tok, id, 403, "perm")
          /\ UNCHANGED pend
       ELSE
          /\ pend' = [pend EXCEPT ![p] = [pc |-> "remove", tok |-> tok, id |-> id]]
          /\ UNCHANGED resp
    /\ UNCHANGED companies
    /\ CrudFrame

\* crud_company.remove and the handler's return: "response.data[0]" raises
\* IndexError when the DELETE matched no row (500).
delete_company_write(p) ==
    /\ pend[p].pc = "remove"
    /\ companies' = crud_remove(companies, pend[p].id)
    /\ resp' = IF update_returning(companies, pend[p].id) = {}
               THEN Response("delete_company", pend[p].tok, pend[p].id, 500, "missing")
               ELSE Response("delete_company", pend[p].tok, pend[p].id, 200, "ok")
    /\ pend' = [pend EXCEPT ![p] = IdleProc]
    /\ CrudFrame

(***************************************************************************)
(* SpecCrud: two workers serve company requests concurrently.              *)
(***************************************************************************)
NextCrud ==
    \/ \E tok \in ValidTokens, company_in \in CompanyCreateInputs :
          create_company(tok, company_in)
    \/ \E p \in Procs, tok \in ValidTokens, id \in CompanyIds, upd \in CompanyUpdateInputs :
          update_company_get(p, tok, id, upd)
    \/ \E p \in Procs : update_company_write(p)
    \/ \E p \in Procs, tok \in ValidTokens, id \in CompanyIds : delete_company_get(p, tok, id)
    \/ \E p \in Procs : delete_company_write(p)

SpecCrud == InitApps /\ [][NextCrud]_vars

\* C8: an update or delete by id whose row is not stored when the operation is
\* applied is answered 404 (never an unhandled error) and changes nothing, in
\* every interleaving with a concurrent delete of the same id.
C8_NotFound ==
    (resp.op \in {"update_company", "delete_company"} /\ resp.info = "missing") =>
        resp.status = 404

(***************************************************************************)
(* Verification documents: the document endpoints of verification.py and   *)
(* VerificationService.batch_upload_documents.  The batch endpoint passes  *)
(* (db, files, document_type) where the service takes user_id and          *)
(* request_id as well; the call is modelled as reaching the service with   *)
(* the caller and the request of the URL.                                  *)
(***************************************************************************)
DocIds == 1 .. MaxFiles
FreeDocIds == DocIds \ {d.id : d \in docs}
NewDocId == CHOOSE i \in FreeDocIds : \A k \in FreeDocIds : i <= k

\* What happens to one submitted file: validate_document finds it invalid; the
\* temporary save after validation raises; a step of the upload loop (final
\* save, storage, record) raises; or every step succeeds.
FileKinds == {"ok", "invalid", "save_fails", "record_fails"}

RECURSIVE SeqsUpTo(_, _)
\* The sequences over S of length 1 .. n.
SeqsUpTo(S, n) ==
    IF n = 0 THEN {}
    ELSE LET shorter == SeqsUpTo(S, n - 1) IN
         {<< x >> : x \in S} \cup shorter \cup {Append(q, x) : q \in shorter, x \in S}

\* The test the three document endpoints make on the request they fetched.
documents_allowed(status) == status \in OpenStatuses

\* "if not current_user.is_superuser and request.user_id != current_user.id: 403"
request_permitted(us, req, uid) == us[uid].is_superuser \/ req.user_id = uid

\* VerificationService.upload_document is called by the endpoint but defined in
\* no source file: taken to store one document record for the request.
upload_document(ds, id, rid) == ds \cup {[id |-> id, request_id |-> rid]}

\* VerificationService.delete_document, likewise: removes the record.
delete_document(ds, rid, doc_id) == ds \ {[id |-> doc_id, request_id |-> rid]}

DocsFrame == UNCHANGED << users, nextUid, removed, jobs, apps, vreqs, nextRid, profile,
                          clock, pend, companies, payments, skills, benefits, notifications >>

\* The answer of a document endpoint up to its status test: 0 when every test passes.
document_checks(tok, rid) ==
    LET a == get_current_active_user(users, tok) IN
    IF a.status # 200 THEN [status |-> a.status, info |-> "auth"]
    ELSE IF vreqs[rid] = NoRow THEN [status |-> 404, info |-> "missing"]
    ELSE IF ~request_permitted(users, vreqs[rid], a.uid) THEN [status |-> 403, info |-> "perm"]
    ELSE IF ~documents_allowed(vreqs[rid].status) THEN [status |-> 400, info |-> "closed"]
    ELSE [status |-> 0, info |-> "pass"]

\* POST /verification/requests/{request_id}/documents
upload_verification_document(tok, rid) ==
    LET c == document_checks(tok, rid) IN
    /\ IF c.status # 0 THEN
          /\ resp' = Response("upload_verification_document", tok, rid, c.status, c.info)
          /\ UNCHANGED docs
       ELSE
          /\ FreeDocIds # {}
          /\ docs' = upload_document(docs, NewDocId, rid)
          /\ resp' = Response("upload_verification_document", tok, rid, 200, "ok")
    /\ UNCHANGED batch
    /\ DocsFrame

\* DELETE /verification/requests/{request_id}/documents/{document_id}: an
\* exception of the service (no such document) becomes 400.
delete_verification_document(tok, rid, doc_id) ==
    LET c == document_checks(tok, rid) IN
    /\ IF c.status # 0 THEN
          /\ resp' = Response("delete_verification_document", tok, rid, c.status, c.info)
          /\ UNCHANGED docs
       ELSE IF [id |-> doc_id, request_id |-> rid] \notin docs THEN
          /\ resp' = Response("delete_verification_document", tok, rid, 400, "error")
          /\ UNCHANGED docs
       ELSE
          /\ docs' = delete_document(docs, rid, doc_id)
          /\ resp' = Response("delete_verification_document", tok, rid, 200, "ok")
    /\ UNCHANGED batch
    /\ DocsFrame

\* batch_upload_documents at entry: result = BatchDocumentUpload(), no file seen.
BatchStart(tok, rid, files) ==
    [pc |-> "validate", tok |-> tok, request_id |-> rid, files |-> files, i |-> 1,
     validation_tasks |-> << >>, success_count |-> 0, failed_count |-> 0,
     documents |-> << >>, errors |-> << >>]

\* POST /verification/requests/{request_id}/documents/batch, up to the call of
\* VerificationService.batch_upload_documents.
batch_upload_verification_documents(tok, rid, files) ==
    LET c == document_checks(tok, rid) IN
    /\ batch.pc \in {"idle", "returned", "raised"}
    /\ IF c.status # 0 THEN
          /\ resp' = Response("batch_upload_verification_documents", tok, rid,
                              c.status, c.info)
          /\ UNCHANGED batch
       ELSE
          /\ batch' = BatchStart(tok, rid, files)
          /\ UNCHANGED resp
    /\ UNCHANGED docs
    /\ DocsFrame

\* One round of the validation loop (lines 359-380): an invalid file is counted
\* as failed and recorded in errors; a valid one is saved to a temporary file
\* and queued.  The save is outside any try: when it raises, the call ends and
\* the endpoint's "except Exception" answers 400.
batch_validate ==
    /\ batch.pc = "validate"
    /\ batch.i <= Len(batch.files)
    /\ IF batch.files[batch.i] = "invalid" THEN
          /\ batch' = [batch EXCEPT !.failed_count = @ + 1,
                                    !.errors = Append(@, batch.i),
                                    !.i = @ + 1]
          /\ UNCHANGED resp
       ELSE IF batch.files[batch.i] = "save_fails" THEN
          /\ batch' = [batch EXCEPT !.pc = "raised"]
          /\ resp' = Response("batch_upload_verification_documents", batch.tok,
                              batch.request_id, 400, "error")
       ELSE
          /\ batch' = [batch EXCEPT !.validation_tasks = Append(@, batch.i),
                                    !.i = @ + 1]
          /\ UNCHANGED resp
    /\ UNCHANGED docs
    /\ DocsFrame

\* _process_batch_compression (lines 318-340, 383): COMPRESSION_THRESHOLD is not
\* a name of the service module, so every _compress_document_parallel ends in
\* its except branch and yields (None, None); the queue goes on unchanged.
process_batch_compression ==
    /\ batch.pc = "validate"
    /\ batch.i > Len(batch.files)
    /\ batch' = [batch EXCEPT !.pc = "upload", !.i = 1]
    /\ UNCHANGED << docs, resp >>
    /\ DocsFrame

\* One round of the upload loop (lines 386-448): final save, storage, record,
\* then documents / success_count; any exception is counted as failed and
\* recorded in errors.
batch_upload ==
    /\ batch.pc = "upload"
    /\ batch.i <= Len(batch.validation_tasks)
    /\ IF batch.files[batch.validation_tasks[batch.i]] = "record_fails" THEN
          /\ batch' = [batch EXCEPT !.failed_count = @ + 1,
                                    !.errors = Append(@, batch.validation_tasks[batch.i]),
                                    !.i = @ + 1]
          /\ UNCHANGED docs
       ELSE
          /\ FreeDocIds # {}
          /\ docs' = docs \cup {[id |-> NewDocId, request_id |-> batch.request_id]}
          /\ batch' = [batch EXCEPT !.success_count = @ + 1,
                                    !.documents = Append(@, batch.validation_tasks[batch.i]),
                                    !.i = @ + 1]
    /\ UNCHANGED resp
    /\ DocsFrame

\* "return result" (line 450) and the endpoint's 200.
batch_return ==
    /\ batch.pc = "upload"
    /\ batch.i > Len(batch.validation_tasks)
    /\ batch' = [batch EXCEPT !.pc = "returned"]
    /\ resp' = Response("batch_upload_verification_documents", batch.tok,
                        batch.request_id, 200, "ok")
    /\ UNCHANGED docs
    /\ DocsFrame

(***************************************************************************)
(* SpecBatch: batches of files are uploaded for an open request.           *)
(***************************************************************************)
\* Request 1 was created by user 2 and is pending; no other request is stored.
SeedRequests ==
    [r \in ReqIds |-> IF r = 1
                      THEN service_create_verification_request(
                               [q \in ReqIds |-> NoRow], 1, 2,
                               [verification_type |-> "identity"])[1]
                      ELSE NoRow]

InitDocs ==
    /\ users = RegisteredUsers
    /\ nextUid = MaxUsers + 1
    /\ removed = {}
    /\ jobs = [j \in JobIds |-> NoRow]
    /\ apps = [a \in AppIds |-> NoRow]
    /\ vreqs = SeedRequests
    /\ nextRid = 2
    /\ profile = [u \in UserIds |-> EmptyProfile]
    /\ docs = {}
    /\ clock = 0
    /\ pend = [p \in Procs |-> [pc |-> "idle"]]
    /\ companies = [c \in CompanyIds |-> NoRow]
    /\ payments = [c \in PaymentIds |-> NoRow]
    /\ skills = [k \in SkillIds |-> NoRow]
    /\ benefits = [k \in SkillIds |-> NoRow]
    /\ notifications = << >>
    /\ batch = IdleBatch
    /\ resp = NoResp

BatchFiles == SeqsUpTo(FileKinds, MaxFiles)

NextBatch ==
    \/ \E tok \in VerifTokens, rid \in ReqIds, files \in BatchFiles :
          batch_upload_verification_documents(tok, rid, files)
    \/ batch_validate
    \/ process_batch_compression
    \/ batch_upload
    \/ batch_return

SpecBatch == InitDocs /\ [][NextBatch]_vars

\* The number of positions of the sequence q that hold x.
Count(q, x) == Cardinality({k \in 1 .. Len(q) : q[k] = x})

\* C10: batch_upload_documents processes every submitted file: when the call is
\* over each file has been counted exactly once, in documents or in errors,
\* success_count + failed_count is the number of files submitted and
\* len(documents) = success_count.
C10_EveryFileCounted ==
    batch.pc \in {"returned", "raised"} =>
        /\ \A k \in 1 .. Len(batch.files) :
              Count(batch.documents, k) + Count(batch.errors, k) = 1
        /\ batch.success_count + batch.failed_count = Len(batch.files)
        /\ Len(batch.documents) = batch.success_count

(***************************************************************************)
(* SpecDocs: documents are uploaded and deleted while a reviewer updates   *)
(* the request.                                                            *)
(***************************************************************************)
DocsUpdateInputs == {u \in VerifUpdateInputs : u.status \in {"in_review", "approved"}}
DocsFiles == SeqsUpTo(FileKinds, 1)

NextDocs ==
    \/ \E tok \in VerifTokens, id \in ReqIds, upd \in DocsUpdateInputs :
          update_verification_request(tok, id, upd)
    \/ \E tok \in VerifTokens, rid \in ReqIds : upload_verification_document(tok, rid)
    \/ \E tok \in VerifTokens, rid \in ReqIds, doc_id \in DocIds :
          delete_verification_document(tok, rid, doc_id)
    \/ \E tok \in VerifTokens, rid \in ReqIds, files \in DocsFiles :
          batch_upload_verification_documents(tok, rid, files)
    \/ batch_validate
    \/ process_batch_compression
    \/ batch_upload
    \/ batch_return

SpecDocs == InitDocs /\ [][NextDocs]_vars

flush_columns_AllAssigned(loaded, upd, reviewer_id) ==
    (IF upd.status # Unset THEN {"status"} ELSE {}) \cup {"reviewed_by"}

\* The columns of the UPDATE that db.commit() flushes: the attributes assigned
\* by the setattr loop whose new value is not the value that was loaded.
flush_columns(loaded, upd, reviewer_id) ==
    (IF upd.status # Unset /\ upd.status # loaded.status THEN {"status"} ELSE {})
    \cup (IF reviewer_id # loaded.reviewed_by THEN {"reviewed_by"} ELSE {})

\* The row after the UPDATE: flushed columns take the session's value, the
\* other columns keep what is stored.
flush_row(row, loaded, upd, reviewer_id) ==
    LET cols == flush_columns(loaded, upd, reviewer_id) IN
    [row EXCEPT !.status = IF "status" \in cols THEN upd.status ELSE @,
                !.reviewed_by = IF "reviewed_by" \in cols THEN reviewer_id ELSE @]

RaceFrame == UNCHANGED << users, nextUid, removed, jobs, apps, nextRid, docs,
                          companies, payments, skills, benefits, notifications, batch >>

\* PUT /verification/requests/{request_id} up to the load of the row: 404 when
\* not stored, 403 unless superuser, else the session holds the row as loaded.
update_verification_request_load(p, tok, id, upd) ==
    LET a == get_current_active_user(users, tok) IN
    /\ pend[p] = IdleProc
    /\ IF a.status # 200 THEN
          /\ resp' = Response("update_verification_request", tok, id, a.status, "auth")
          /\ UNCHANGED pend
       ELSE IF vreqs[id] = NoRow THEN
          /\ resp' = Response("update_verification_request", tok, id, 404, "missing")
          /\ UNCHANGED pend
       ELSE IF ~is_reviewer(users, a.uid) THEN
          /\ resp' = Response("update_verification_request", tok, id, 403, "perm")
          /\ UNCHANGED pend
       ELSE
          /\ pend' = [pend EXCEPT ![p] = [pc |-> "loaded", tok |-> tok, id |-> id,
                                          upd |-> upd, loaded |-> vreqs[id]]]
          /\ UNCHANGED resp
    /\ UNCHANGED << vreqs, profile, clock >>
    /\ RaceFrame

\* The setattr loop, db.commit(), the profile update and the 200 answer.  The
\* clock orders the commits.
update_verification_request_commit(p) ==
    /\ pend[p].pc = "loaded"
    /\ clock < MaxClock
    /\ clock' = clock + 1
    /\ vreqs' = [vreqs EXCEPT ![pend[p].id] =
                    flush_row(@, pend[p].loaded, pend[p].upd, pend[p].tok.sub)]
    /\ profile' = IF pend[p].upd.status \in {"approved", "rejected"}
                  THEN update_profile_verification(profile, pend[p].loaded.user_id,
                           pend[p].loaded.verification_type, pend[p].upd.status)
                  ELSE profile
    /\ resp' = Response("update_verification_request", pend[p].tok, pend[p].id, 200, "ok")
    /\ pend' = [pend EXCEPT ![p] = [pc |-> "committed", tok |-> pend[p].tok,
                                    id |-> pend[p].id, upd |-> pend[p].upd,
                                    loaded |-> pend[p].loaded, at |-> clock + 1]]
    /\ RaceFrame

\* Users 1 and 3 are superusers; request 1 is stored and pending.
RaceUsers == [i \in UserIds |-> IF i \in {1, 3} THEN AdminRow ELSE RegularRow]
RaceTokens == {ValidToken(1), ValidToken(2), ValidToken(3)}

InitRace ==
    /\ users = RaceUsers
    /\ nextUid = MaxUsers + 1
    /\ removed = {}
    /\ jobs = [j \in JobIds |-> NoRow]
    /\ apps = [a \in AppIds |-> NoRow]
    /\ vreqs = SeedRequests
    /\ nextRid = 2
    /\ profile = [u \in UserIds |-> EmptyProfile]
    /\ docs = {}
    /\ clock = 0
    /\ pend = [p \in Procs |-> IdleProc]
    /\ companies = [c \in CompanyIds |-> NoRow]
    /\ payments = [c \in PaymentIds |-> NoRow]
    /\ skills = [k \in SkillIds |-> NoRow]
    /\ benefits = [k \in SkillIds |-> NoRow]
    /\ notifications = << >>
    /\ batch = IdleBatch
    /\ resp = NoResp

NextRace ==
    \/ \E p \in Procs, tok \in RaceTokens, id \in ReqIds, upd \in VerifUpdateInputs :
          update_verification_request_load(p, tok, id, upd)
    \/ \E p \in Procs : update_verification_request_commit(p)

SpecRace == InitRace /\ [][NextRace]_vars

\* The updates of request 1 that have committed, and the last of a set of them.
Committed == {p \in Procs : pend[p].pc = "committed" /\ pend[p].id = 1}
LastOf(S) == CHOOSE p \in S : \A q \in S : pend[q].at <= pend[p].at
BothCommitted == Committed = Procs

\* C11 as stated: after two concurrent updates of one request both have been
\* answered 200 and each field holds the value of the update that committed
\* last among those that set the field.
C11_LastWriterWins ==
    BothCommitted =>
        LET setStatus == {p \in Committed : pend[p].upd.status # Unset} IN
        /\ setStatus # {} => vreqs[1].status = pend[LastOf(setStatus)].upd.status
        /\ vreqs[1].reviewed_by = pend[LastOf(Committed)].tok.sub

\* C11 amended: both updates are answered 200 and none is rolled back; each
\* field holds the value of the update that committed last among those whose
\* value for the field differs from the value that update had loaded, and the
\* value it had before when there is none.
C11_LastChangeWins ==
    /\ (resp.op = "update_verification_request" /\ resp.info = "ok") => resp.status = 200
    /\ BothCommitted =>
        LET chStatus == {p \in Committed : /\ pend[p].upd.status # Unset
                                           /\ pend[p].upd.status # pend[p].loaded.status}
            chReviewer == {p \in Committed : pend[p].tok.sub # pend[p].loaded.reviewed_by}
        IN
        /\ vreqs[1].status = IF chStatus # {} THEN pend[LastOf(chStatus)].upd.status
                             ELSE SeedRequests[1].status
        /\ vreqs[1].reviewed_by = IF chReviewer # {} THEN pend[LastOf(chReviewer)].tok.sub
                                  ELSE SeedRequests[1].reviewed_by

\* Two updates that set different statuses overlapped, and the later commit's
\* status is stored.
C11_Witness ==
    /\ BothCommitted
    /\ pend["p1"].loaded = pend["p2"].loaded
    /\ pend["p1"].upd.status = "approved" /\ pend["p2"].upd.status = "rejected"
    /\ pend["p1"].at < pend["p2"].at
    /\ vreqs[1].status = "rejected"

(***************************************************************************)
(* Job listing: get_jobs of api/v1/endpoints/jobs.py over                  *)
(* CRUDBase.get_multi.                                                     *)
(***************************************************************************)
MaxJobs == 5
MaxPage == 4
MaxSize == 3
\* Query(10, ge=1, le=100): the largest page size the endpoint accepts.
SizeLimit == 100
PageJobIds == 1 .. MaxJobs

RECURSIVE RowList(_, _)
\* The rows of a table as the SELECT returns them: the stored ids from id on,
\* in ascending order.
RowList(table, id) ==
    IF id \notin DOMAIN table THEN << >>
    ELSE IF table[id] = NoRow THEN RowList(table, id + 1)
    ELSE << id >> \o RowList(table, id + 1)

Min(a, b) == IF a <= b THEN a ELSE b

\* The mutant takes range(skip, skip + limit) with both ends included.
get_multi_InclusiveEnd(table, skip, limit) ==
    SubSeq(RowList(table, 1), skip + 1, Min(skip + limit + 1, Len(RowList(table, 1))))

\* CRUDBase.get_multi: select("*").range(skip, skip + limit - 1), the rows at
\* offsets skip .. skip + limit - 1 of the result.
get_multi(table, skip, limit) ==
    SubSeq(RowList(table, 1), skip + 1, Min(skip + limit, Len(RowList(table, 1))))

\* crud_job.count is called by get_jobs but defined in no source file: taken
\* to be the number of stored jobs.
crud_job_count(js) == Cardinality(Stored(js))

\* The body get_jobs returns for a page and a size.
jobs_page(js, page, size) ==
    LET skip == (page - 1) * size
        total == crud_job_count(js)
    IN [items |-> get_multi(js, skip, size), total |-> total, page |-> page,
        size |-> size, pages |-> (total + size - 1) \div size]

\* GET /jobs/: 422 when page < 1 or size is outside 1 .. 100.
get_jobs(page, size) ==
    /\ resp' = IF page < 1 \/ size < 1 \/ size > SizeLimit
               THEN Response("get_jobs", NoToken, 0, 422, "invalid")
               ELSE Response("get_jobs", NoToken, 0, 200, jobs_page(jobs, page, size))
    /\ UNCHANGED jobs
    /\ JobsFrame

(***************************************************************************)
(* SpecPages: jobs are posted and removed and the listing is read.         *)
(***************************************************************************)
InitPages ==
    /\ users = RegisteredUsers
    /\ nextUid = MaxUsers + 1
    /\ removed = {}
    /\ jobs = [j \in PageJobIds |-> NoRow]
    /\ apps = [a \in AppIds |-> NoRow]
    /\ vreqs = [r \in ReqIds |-> NoRow]
    /\ nextRid = 1
    /\ profile = [u \in UserIds |-> EmptyProfile]
    /\ docs = {}
    /\ clock = 0
    /\ pend = [p \in Procs |-> IdleProc]
    /\ companies = [c \in CompanyIds |-> NoRow]
    /\ payments = [c \in PaymentIds |-> NoRow]
    /\ skills = [k \in SkillIds |-> NoRow]
    /\ benefits = [k \in SkillIds |-> NoRow]
    /\ notifications = << >>
    /\ batch = IdleBatch
    /\ resp = NoResp

NextPages ==
    \/ \E job_in \in AuthJobInputs : create_job(ValidToken(2), job_in)
    \/ \E id \in PageJobIds : delete_job(ValidToken(2), id)
    \/ \E page \in 0 .. MaxPage, size \in 0 .. MaxSize : get_jobs(page, size)

SpecPages == InitPages /\ [][NextPages]_vars

RECURSIVE PagesUpTo(_, _, _)
\* The items of pages 1 .. n of the listing, one page after the other.
PagesUpTo(js, n, size) ==
    IF n = 0 THEN << >>
    ELSE PagesUpTo(js, n - 1, size) \o jobs_page(js, n, size).items

\* C12: get_jobs reports pages = ceil(total / size) and returns the jobs at
\* offsets (page-1)*size .. page*size-1 of the job list; pages 1 .. pages together
\* return every stored job exactly once and every later page is empty.
C12_Pagination ==
    LET list == RowList(jobs, 1)
        total == Cardinality(Stored(jobs))
    IN
    /\ (resp.op = "get_jobs" /\ resp.status = 200) =>
          LET r == resp.info IN
          /\ r.total = total
          /\ r.pages * r.size >= total /\ (r.pages - 1) * r.size < total
          /\ \A k \in 1 .. Len(r.items) : r.items[k] = list[(r.page - 1) * r.size + k]
          /\ Len(r.items) = Cardinality({o \in 0 .. total - 1 :
                                           /\ o >= (r.page - 1) * r.size
                                           /\ o <= r.page * r.size - 1})
    /\ \A size \in 1 .. MaxSize :
          LET pages == jobs_page(jobs, 1, size).pages IN
          /\ PagesUpTo(jobs, pages, size) = list
          /\ \A page \in pages + 1 .. pages + MaxPage : jobs_page(jobs, page, size).items = << >>

\* A listing of a later, partly filled page was returned.
C12_Witness ==
    /\ resp.op = "get_jobs" /\ resp.status = 200
    /\ resp.info.page = 2 /\ resp.info.size = 3 /\ resp.info.total = 5
    /\ Len(resp.info.items) = 2 /\ resp.info.pages = 2

(***************************************************************************)
(* Unified search: services/search.py behind api/v1/endpoints/search.py.   *)
(* The ilike filters on the search text are kept as a match of the text    *)
(* against the job title and the company name.                             *)
(***************************************************************************)
\* Query(20, ge=1, le=100): the largest page_size the endpoint accepts.
SearchSizeLimit == 100
SearchQueries == {Unset, "t1", "c1", "zz"}

RECURSIVE Reverse(_)
Reverse(q) == IF q = << >> THEN << >> ELSE Append(Reverse(Tail(q)), Head(q))

RECURSIVE SelectIds(_, _)
\* The ids of the sequence q that are in the set keep, in the order of q.
SelectIds(q, keep) ==
    IF q = << >> THEN << >>
    ELSE IF Head(q) \in keep THEN << Head(q) >> \o SelectIds(Tail(q), keep)
    ELSE SelectIds(Tail(q), keep)

\* _apply_job_filters and _apply_sorting (relevance: newest first).
apply_job_filters(js, q) ==
    SelectIds(Reverse(RowList(js, 1)),
              {id \in DOMAIN js : js[id] # NoRow /\ (q = Unset \/ js[id].title = q)})

\* _apply_company_filters.
apply_company_filters(cs, q) ==
    SelectIds(RowList(cs, 1),
              {id \in DOMAIN cs : cs[id] # NoRow /\ (q = Unset \/ cs[id].name = q)})

\* query.offset(skip).limit(page_size).all()
offset_limit(q, skip, limit) == SubSeq(q, skip + 1, Min(skip + limit, Len(q)))

\* The mutant counts the items of both lists together.
search_total_items_Sum(total_jobs, total_companies) == total_jobs + total_companies

\* "total_items=max(total_jobs, total_companies)"
search_total_items(total_jobs, total_companies) ==
    IF total_jobs >= total_companies THEN total_jobs ELSE total_companies

\* SearchService._get_pagination_info
get_pagination_info(total_items, page, page_size) ==
    LET total_pages == (total_items + page_size - 1) \div page_size IN
    [current_page |-> page, total_pages |-> total_pages, total_items |-> total_items,
     has_next |-> page < total_pages, has_previous |-> page > 1, page_size |-> page_size]

\* SearchService.search
service_search(js, cs, q, page, page_size) ==
    LET skip == (page - 1) * page_size
        job_query == apply_job_filters(js, q)
        company_query == apply_company_filters(cs, q)
    IN [query |-> q,
        jobs |-> offset_limit(job_query, skip, page_size),
        companies |-> offset_limit(company_query, skip, page_size),
        pagination |-> get_pagination_info(
                           search_total_items(Len(job_query), Len(company_query)),
                           page, page_size)]

\* GET /search/: 422 when page < 1 or page_size is outside 1 .. 100.
search(q, page, page_size) ==
    /\ resp' = IF page < 1 \/ page_size < 1 \/ page_size > SearchSizeLimit
               THEN Response("search", NoToken, 0, 422, "invalid")
               ELSE Response("search", NoToken, 0, 200,
                             service_search(jobs, companies, q, page, page_size))
    /\ UNCHANGED << users, nextUid, removed, jobs, apps, vreqs, nextRid, profile, docs,
                    clock, pend, companies, payments, skills, benefits, notifications, batch >>

(***************************************************************************)
(* SpecSearch: jobs and companies come and go and the search is read.      *)
(***************************************************************************)
InitSearch ==
    /\ users = RegisteredUsers
    /\ nextUid = MaxUsers + 1
    /\ removed = {}
    /\ jobs = [j \in PageJobIds |-> NoRow]
    /\ apps = [a \in AppIds |-> NoRow]
    /\ vreqs = [r \in ReqIds |-> NoRow]
    /\ nextRid = 1
    /\ profile = [u \in UserIds |-> EmptyProfile]
    /\ docs = {}
    /\ clock = 0
    /\ pend = [p \in Procs |-> IdleProc]
    /\ companies = [c \in PageJobIds |-> NoRow]
    /\ payments = [c \in PaymentIds |-> NoRow]
    /\ skills = [k \in SkillIds |-> NoRow]
    /\ benefits = [k \in SkillIds |-> NoRow]
    /\ notifications = << >>
    /\ batch = IdleBatch
    /\ resp = NoResp

SearchCompanyInputs == {c \in CompanyCreateInputs : c.name = "c1"}

NextSearch ==
    \/ \E job_in \in AuthJobInputs : create_job(ValidToken(2), job_in)
    \/ \E id \in PageJobIds : delete_job(ValidToken(2), id)
    \/ \E company_in \in SearchCompanyInputs : create_company(ValidToken(1), company_in)
    \/ \E q \in SearchQueries, page \in 0 .. MaxPage, page_size \in 0 .. MaxSize :
          search(q, page, page_size)

SpecSearch == InitSearch /\ [][NextSearch]_vars

\* C13: the search reports total_pages = ceil(total_items / page_size),
\* has_previous = (page > 1) and has_next = (page < total_pages); has_next is
\* true exactly when some later page holds a matching job or company; the jobs
\* and companies lists hold at most page_size items, taken from offset
\* (page-1)*page_size of their filtered result.
C13_SearchPagination ==
    (resp.op = "search" /\ resp.status = 200) =>
        LET r == resp.info
            p == r.pagination
            skip == (p.current_page - 1) * p.page_size
            allJobs == apply_job_filters(jobs, r.query)
            allCompanies == apply_company_filters(companies, r.query)
            Later(n) == service_search(jobs, companies, r.query, n, p.page_size)
        IN
        /\ p.total_pages * p.page_size >= p.total_items
        /\ (p.total_pages - 1) * p.page_size < p.total_items
        /\ p.has_previous = (p.current_page > 1)
        /\ p.has_next = (p.current_page < p.total_pages)
        /\ p.has_next = (\E n \in p.current_page + 1 .. p.current_page + MaxJobs :
                            Later(n).jobs # << >> \/ Later(n).companies # << >>)
        /\ Len(r.jobs) <= p.page_size /\ Len(r.companies) <= p.page_size
        /\ \A k \in 1 .. Len(r.jobs) : r.jobs[k] = allJobs[skip + k]
        /\ \A k \in 1 .. Len(r.companies) : r.companies[k] = allCompanies[skip + k]
        /\ Len(r.jobs) = Min(p.page_size, IF Len(allJobs) > skip
                                         THEN Len(allJobs) - skip ELSE 0)
        /\ Len(r.companies) = Min(p.page_size, IF Len(allCompanies) > skip
                                              THEN Len(allCompanies) - skip ELSE 0)

\* A search found more jobs than companies and reported a next page that holds
\* jobs only.
C13_Witness ==
    /\ resp.op = "search" /\ resp.status = 200
    /\ resp.info.pagination.has_next
    /\ resp.info.companies # << >>
    /\ Len(apply_company_filters(companies, resp.info.query))
          <= resp.info.pagination.current_page * resp.info.pagination.page_size
    /\ Len(apply_job_filters(jobs, resp.info.query))
          > resp.info.pagination.current_page * resp.info.pagination.page_size

(***************************************************************************)
(* Document validation: VerificationService.validate_document and the      *)
(* DocumentValidation schema.  Sizes are counted in megabytes.             *)
(***************************************************************************)
\* MAX_FILE_SIZE = 10 * 1024 * 1024
MAX_FILE_SIZE == 10
MimeTypes == {"application/pdf", "image/png", "application/x-sh"}
Extensions == {".pdf", ".png", ".sh"}
FileSizes == {1, 6, MAX_FILE_SIZE, MAX_FILE_SIZE + 1}

\* ALLOWED_MIME_TYPES, restricted to the two allowed types of MimeTypes.
ALLOWED_MIME_TYPES ==
    [m \in {"application/pdf", "image/png"} |->
        IF m = "application/pdf" THEN {".pdf"} ELSE {".png"}]

\* An upload: its length, the declared content type, the extension of its
\* file name and the type python-magic detects from the bytes.
UploadFiles ==
    [size : FileSizes, content_type : MimeTypes, extension : Extensions,
     detected : MimeTypes]

\* DocumentValidation.validate_file_size
validate_file_size(v) == v <= MAX_FILE_SIZE

\* DocumentValidation.validate_mime_type
validate_mime_type(v) == v \in DOMAIN ALLOWED_MIME_TYPES

\* DocumentValidation.validate_extension
validate_extension(v, mime_type) ==
    mime_type \in DOMAIN ALLOWED_MIME_TYPES => v \in ALLOWED_MIME_TYPES[mime_type]

\* DocumentValidation.validate_content: the object after the call.
validate_content(validation, detected) ==
    IF detected # validation.mime_type
    THEN [validation EXCEPT
             !.validation_errors = Append(@, "Content type mismatch")]
    ELSE [validation EXCEPT !.content_type = detected, !.is_valid = TRUE]

\* DocumentValidation(file_size=0, mime_type=..., file_extension=...): the
\* field validators run at construction, and their error leaves the call.
DocumentValidation(file) ==
    [file_size |-> 0, mime_type |-> file.content_type,
     file_extension |-> file.extension, content_type |-> Unset,
     is_valid |-> FALSE, validation_errors |-> << >>]

\* VerificationService.validate_document
validate_document(file) ==
    /\ resp' =
         IF ~ validate_mime_type(file.content_type)
            \/ ~ validate_extension(file.extension, file.content_type)
         THEN Response("validate_document", NoToken, 0, 500,
                       [file |-> file, raised |-> "DocumentValidationError"])
         ELSE
           LET validation == [DocumentValidation(file) EXCEPT !.file_size = file.size]
               rejected(msg) ==
                   [validation EXCEPT !.validation_errors = Append(@, msg),
                                      !.is_valid = FALSE]
               result ==
                   IF ~ validate_file_size(validation.file_size)
                   THEN rejected("File size exceeds maximum limit")
                   ELSE IF ~ validate_mime_type(validation.mime_type)
                   THEN rejected("Unsupported file type")
                   ELSE IF ~ validate_extension(validation.file_extension,
                                                validation.mime_type)
                   THEN rejected("File extension does not match mime type")
                   ELSE [validate_content(validation, file.detected)
                            EXCEPT !.is_valid = TRUE]
           IN Response("validate_document", NoToken, 0, 200,
                       [file |-> file, validation |-> result])
    /\ UNCHANGED << users, nextUid, removed, jobs, apps, vreqs, nextRid, profile, docs,
                    clock, pend, companies, payments, skills, benefits, notifications, batch >>

NextValidate == \E file \in UploadFiles : validate_document(file)

SpecValidate == InitApps /\ [][NextValidate]_vars

SkillNames == {"python", "sql"}
SkillCreateInputs == [name : SkillNames]
\* SkillUpdate: name optional, written with exclude_unset.
SkillUpdateInputs == [name : SkillNames \cup {Unset}]

\* CRUDSkill.get_by_name: the ids of the rows with that name.
get_by_name(table, name) == {i \in Stored(table) : table[i].name = name}

\* The mutant drops the column's unique index.
name_unique_NoIndex(table, id, name) == TRUE

\* name = Column(String(100), unique=True, ...): the write of that name to the
\* row id is accepted only if no other row holds it.
name_unique(table, id, name) == get_by_name(table, name) \subseteq {id}

SkillsFrame == UNCHANGED << users, nextUid, removed, jobs, apps, vreqs, nextRid, profile,
                            docs, clock, pend, companies, payments, notifications, batch >>

\* POST /: 400 when get_by_name finds the name, else CRUDBase.create.
create_named(op, table, obj_in) ==
    IF get_by_name(table, obj_in.name) # {}
    THEN [table |-> table, resp |-> Response(op, NoToken, 0, 400, obj_in.name)]
    ELSE IF FreeIds(table) = {} \/ ~ name_unique(table, NewId(table), obj_in.name)
    THEN [table |-> table, resp |-> Response(op, NoToken, 0, 500, obj_in.name)]
    ELSE [table |-> [table EXCEPT ![NewId(table)] = [name |-> obj_in.name]],
          resp |-> Response(op, NoToken, NewId(table), 200, obj_in.name)]

\* PUT /{id}: 404 when the row is not stored, else CRUDBase.update; the
\* database refuses a name another row holds and the error leaves the handler.
update_named(op, table, id, obj_in) ==
    IF table[id] = NoRow
    THEN [table |-> table, resp |-> Response(op, NoToken, id, 404, "missing")]
    ELSE IF obj_in.name = Unset
    THEN [table |-> table, resp |-> Response(op, NoToken, id, 200, "ok")]
    ELSE IF ~ name_unique(table, id, obj_in.name)
    THEN [table |-> table, resp |-> Response(op, NoToken, id, 500, "IntegrityError")]
    ELSE [table |-> [table EXCEPT ![id] = [@ EXCEPT !.name = obj_in.name]],
          resp |-> Response(op, NoToken, id, 200, "ok")]

\* DELETE /{id}: 404 when the row is not stored, else CRUDBase.remove.
delete_named(op, table, id) ==
    IF table[id] = NoRow
    THEN [table |-> table, resp |-> Response(op, NoToken, id, 404, "missing")]
    ELSE [table |-> crud_remove(table, id), resp |-> Response(op, NoToken, id, 200, "ok")]

create_skill(skill_in) ==
    LET r == create_named("create_skill", skills, skill_in) IN
    /\ skills' = r.table /\ resp' = r.resp
    /\ UNCHANGED benefits /\ SkillsFrame

update_skill(skill_id, skill_in) ==
    LET r == update_named("update_skill", skills, skill_id, skill_in) IN
    /\ skills' = r.table /\ resp' = r.resp
    /\ UNCHANGED benefits /\ SkillsFrame

delete_skill(skill_id) ==
    LET r == delete_named("delete_skill", skills, skill_id) IN
    /\ skills' = r.table /\ resp' = r.resp
    /\ UNCHANGED benefits /\ SkillsFrame

create_benefit(benefit_in) ==
    LET r == create_named("create_benefit", benefits, benefit_in) IN
    /\ benefits' = r.table /\ resp' = r.resp
    /\ UNCHANGED skills /\ SkillsFrame

update_benefit(benefit_id, benefit_in) ==
    LET r == update_named("update_benefit", benefits, benefit_id, benefit_in) IN
    /\ benefits' = r.table /\ resp' = r.resp
    /\ UNCHANGED skills /\ SkillsFrame

delete_benefit(benefit_id) ==
    LET r == delete_named("delete_benefit", benefits, benefit_id) IN
    /\ benefits' = r.table /\ resp' = r.resp
    /\ UNCHANGED skills /\ SkillsFrame

NextSkills ==
    \/ \E skill_in \in SkillCreateInputs : create_skill(skill_in)
    \/ \E id \in SkillIds, skill_in \in SkillUpdateInputs : update_skill(id, skill_in)
    \/ \E id \in SkillIds : delete_skill(id)
    \/ \E benefit_in \in SkillCreateInputs : create_benefit(benefit_in)
    \/ \E id \in SkillIds, benefit_in \in SkillUpdateInputs : update_benefit(id, benefit_in)
    \/ \E id \in SkillIds : delete_benefit(id)

SpecSkills == InitApps /\ [][NextSkills]_vars

UniqueNames(table) ==
    \A i, j \in Stored(table) : i # j => table[i].name # table[j].name

\* C15: after any sequence of create, update and delete requests no two stored
\* skills and no two stored benefits have the same name, and a create whose
\* name is already stored is answered 400 and stores nothing.
C15_UniqueNames ==
    /\ [](UniqueNames(skills) /\ UniqueNames(benefits))
    /\ [][/\ (resp'.op = "create_skill" /\ get_by_name(skills, resp'.info) # {})
              => (resp'.status = 400 /\ skills' = skills)
          /\ (resp'.op = "create_benefit" /\ get_by_name(benefits, resp'.info) # {})
              => (resp'.status = 400 /\ benefits' = benefits)]_vars

\* A create_skill was answered 400 while two skills are stored.
C15_Witness ==
    /\ resp.op = "create_skill" /\ resp.status = 400
    /\ get_by_name(skills, resp.info) # {}
    /\ Cardinality(Stored(skills)) = 2

(***************************************************************************)
(* Job operations over a persistence layer that can fail: the CRUDJob      *)
(* methods of crud/crud_job.py behind the endpoints of jobs.py.  "fails"   *)
(* says whether the database call of the request raises.                   *)
(***************************************************************************)
FeaturedRows ==
    [employer_id : {2}, title : Titles, is_active : BOOLEAN, is_featured : BOOLEAN]

\* CRUDJob.get_featured: the active featured jobs, newest first; [] when the
\* query raises.
CRUDJob_get_featured(js, fails) ==
    IF fails THEN << >>
    ELSE SelectIds(Reverse(RowList(js, 1)),
                   {id \in Stored(js) : js[id].is_featured /\ js[id].is_active})

\* CRUDJob.search: the active jobs whose title matches, newest first; [] when
\* the query raises.
CRUDJob_search(js, query, fails) ==
    IF fails THEN << >>
    ELSE SelectIds(Reverse(RowList(js, 1)),
                   {id \in Stored(js) : js[id].is_active
                                        /\ (query = Unset \/ js[id].title = query)})

\* CRUDJob.create: the table after the insert and the created id; the table
\* as it was and None (written 0) when the insert raises.
CRUDJob_create(js, job_in, employer_id, fails) ==
    IF fails THEN [table |-> js, job |-> 0]
    ELSE [table |-> [js EXCEPT ![NewId(js)] =
                        [employer_id |-> employer_id, title |-> job_in.title,
                         is_active |-> TRUE, is_featured |-> FALSE]],
          job |-> NewId(js)]

\* GET /jobs/featured: the list CRUDJob.get_featured returns.
get_featured_jobs(fails) ==
    /\ resp' = Response("get_featured_jobs", NoToken, 0, 200,
                        [db_failed |-> fails, body |-> CRUDJob_get_featured(jobs, fails)])
    /\ UNCHANGED jobs
    /\ JobsFrame

\* GET /jobs/search: the list CRUDJob.search returns.
search_jobs(query, fails) ==
    /\ resp' = Response("search_jobs", NoToken, 0, 200,
                        [db_failed |-> fails, body |-> CRUDJob_search(jobs, query, fails)])
    /\ UNCHANGED jobs
    /\ JobsFrame

\* POST /jobs/ with response_model=JobResponse: a None result fails the
\* validation of the response, which FastAPI answers with 500.
create_job_response(tok, job_in, fails) ==
    LET a == get_current_user(users, tok)
        r == CRUDJob_create(jobs, job_in, a.uid, fails)
    IN
    /\ IF a.status # 200 THEN
          /\ resp' = Response("create_job", tok, 0, a.status,
                              [db_failed |-> FALSE, body |-> 0])
          /\ UNCHANGED jobs
       ELSE
          /\ FreeIds(jobs) # {}
          /\ jobs' = r.table
          /\ resp' = Response("create_job", tok, 0, IF r.job = 0 THEN 500 ELSE 200,
                              [db_failed |-> fails, body |-> r.job])
    /\ JobsFrame

(***************************************************************************)
(* SpecFail: the job lists are read and jobs are created while the         *)
(* database may fail on any request.                                       *)
(***************************************************************************)
InitFail ==
    /\ users = RegisteredUsers
    /\ nextUid = MaxUsers + 1
    /\ removed = {}
    /\ jobs \in [JobIds -> {NoRow} \cup FeaturedRows]
    /\ apps = [a \in AppIds |-> NoRow]
    /\ vreqs = [r \in ReqIds |-> NoRow]
    /\ nextRid = 1
    /\ profile = [u \in UserIds |-> EmptyProfile]
    /\ docs = {}
    /\ clock = 0
    /\ pend = [p \in Procs |-> IdleProc]
    /\ companies = [c \in CompanyIds |-> NoRow]
    /\ payments = [c \in PaymentIds |-> NoRow]
    /\ skills = [k \in SkillIds |-> NoRow]
    /\ benefits = [k \in SkillIds |-> NoRow]
    /\ notifications = << >>
    /\ batch = IdleBatch
    /\ resp = NoResp

NextFail ==
    \/ \E fails \in BOOLEAN : get_featured_jobs(fails)
    \/ \E query \in Titles \cup {Unset}, fails \in BOOLEAN : search_jobs(query, fails)
    \/ \E tok \in {ValidToken(2), NoToken}, job_in \in AuthJobInputs, fails \in BOOLEAN :
          create_job_response(tok, job_in, fails)

SpecFail == InitFail /\ [][NextFail]_vars

update_employment_preferences(tok) ==
    LET a == get_current_active_user(users, tok) IN
    /\ resp' = Response("update_employment_preferences", tok, a.uid, a.status,
                        IF a.status = 200 THEN "ok" ELSE "auth")
    /\ users' = IF a.status = 200
                THEN crud_user_update(users, a.uid, [email |-> Unset])
                ELSE users
    /\ UNCHANGED << nextUid, removed >>
    /\ UsersFrame

\* UserCreate bodies of an active account: both roles, both privilege levels.
PrivCreateInputs == {u \in UserCreateInputs : u.is_active /\ u.email = "a@x"}

NextPriv ==
    \/ \E user_in \in PrivCreateInputs : register(user_in)
    \/ \E tok \in UsersTokens, user_in \in PrivCreateInputs : create_user(tok, user_in)
    \/ \E tok \in UsersTokens, upd \in UserUpdateInputs : update_user_me(tok, upd)
    \/ \E tok \in UsersTokens : update_employment_preferences(tok)
    \/ \E tok \in UsersTokens, id \in UserIds, upd \in UserUpdateInputs : update_user(tok, id, upd)

SpecPriv == InitCommon /\ [][NextPriv]_vars

\* The request that produced the response was made by a stored superuser.
BySuperuser(us, r) ==
    /\ get_current_user(us, r.tok).status = 200
    /\ us[r.tok.sub].is_superuser

\* C17: a stored user is a superuser only through a request of an existing
\* superuser or the seeding: no request of an unauthenticated caller or of a
\* non-superuser creates a superuser or changes a user's role or is_superuser.
C17_NoEscalation ==
    [][\A u \in UserIds :
          (/\ users'[u] # NoRow
           /\ IF users[u] = NoRow THEN users'[u].is_superuser
              ELSE \/ users'[u].is_superuser # users[u].is_superuser
                   \/ users'[u].role # users[u].role)
          => BySuperuser(users, resp')]_vars

(***************************************************************************)
(* Concurrent create_application requests: the look-up of the caller's     *)
(* applications and the insert are two statements of the handler with no   *)
(* lock or unique index between them (models/job_application.py).          *)
(***************************************************************************)
ApplyFrame == UNCHANGED << users, nextUid, removed, jobs, vreqs, nextRid, profile, docs,
                           clock, companies, payments, skills, benefits, notifications, batch >>

\* POST /applications/, up to the end of the loop over existing_applications.
create_application_check(p, tok, app_in) ==
    LET a == get_current_active_user(users, tok) IN
    /\ pend[p] = IdleProc
    /\ IF a.status # 200 THEN
          /\ resp' = Response("create_application", tok, 0, a.status, "auth")
          /\ UNCHANGED pend
       ELSE IF jobs[app_in.job_id] = NoRow \/ ~jobs[app_in.job_id].is_active THEN
          /\ resp' = Response("create_application", tok, 0, 404, "missing")
          /\ UNCHANGED pend
       ELSE IF \E i \in get_by_applicant(apps, a.uid) : apps[i].job_id = app_in.job_id THEN
          /\ resp' = Response("create_application", tok, 0, 400, "dup")
          /\ UNCHANGED pend
       ELSE
          /\ pend' = [pend EXCEPT ![p] = [pc |-> "create", tok |-> tok, uid |-> a.uid,
                                          app_in |-> app_in]]
          /\ UNCHANGED resp
    /\ UNCHANGED apps
    /\ ApplyFrame

\* "return crud_job_application.create(db, obj_in=application_in, applicant_id=...)"
create_application_insert(p) ==
    /\ pend[p].pc = "create"
    /\ FreeIds(apps) # {}
    /\ apps' = crud_app_create(apps, NewId(apps), pend[p].app_in, pend[p].uid)
    /\ resp' = Response("create_application", pend[p].tok, NewId(apps), 200, "ok")
    /\ pend' = [pend EXCEPT ![p] = IdleProc]
    /\ ApplyFrame

NextApply ==
    \/ \E p \in Procs, tok \in ValidTokens, app_in \in AppCreateInputs :
          create_application_check(p, tok, app_in)
    \/ \E p \in Procs : create_application_insert(p)
    \/ \E tok \in ValidTokens, id \in AppIds : delete_application(tok, id)

SpecApply == InitApps /\ [][NextApply]_vars

\* C18: after any sequence or interleaving of create_application calls there is
\* at most one stored application per (applicant, job) pair.
C18_OnePerPair ==
    \A i, j \in Stored(apps) :
        i # j => (apps[i].applicant_id # apps[j].applicant_id
                  \/ apps[i].job_id # apps[j].job_id)

(***************************************************************************)
(* Payment processing: crud/crud_payment.py process_payment behind         *)
(* POST /payments/{payment_id}/process.  CRUDPayment.process_payment reads *)
(* the row, tests its status and then calls update: two database calls.    *)
(***************************************************************************)
PaymentStatuses == {"pending", "completed", "failed"}
PaymentRows == [user_id : {2}, status : PaymentStatuses, payment_date : {0}]

ProcessFrame == UNCHANGED << users, nextUid, removed, jobs, apps, vreqs, nextRid, profile,
                             docs, companies, skills, benefits, notifications, batch >>

\* CRUDPayment.update with the update_data of process_payment.
crud_payment_update(ps, id, now) ==
    IF ps[id] = NoRow THEN ps
    ELSE [ps EXCEPT ![id] = [@ EXCEPT !.status = "completed", !.payment_date = now]]

\* The endpoint and process_payment up to the test of payment.status.
process_payment_get(p, tok, payment_id) ==
    LET a == get_current_active_user(users, tok) IN
    /\ pend[p] = IdleProc
    /\ IF a.status # 200 THEN
          /\ resp' = Response("process_payment", tok, payment_id, a.status, "auth")
          /\ UNCHANGED pend
       ELSE IF ~users[a.uid].is_superuser THEN
          /\ resp' = Response("process_payment", tok, payment_id, 403, "perm")
          /\ UNCHANGED pend
       ELSE IF payments[payment_id] = NoRow THEN
          /\ resp' = Response("process_payment", tok, payment_id, 400, "Payment not found")
          /\ UNCHANGED pend
       ELSE IF payments[payment_id].status # "pending" THEN
          /\ resp' = Response("process_payment", tok, payment_id, 400, "not pending")
          /\ UNCHANGED pend
       ELSE
          /\ pend' = [pend EXCEPT ![p] = [pc |-> "process", tok |-> tok,
                                          id |-> payment_id]]
          /\ UNCHANGED resp
    /\ UNCHANGED << payments, clock >>
    /\ ProcessFrame

\* "return self.update(db, db_obj=payment, obj_in=update_data)": the UPDATE is
\* keyed by the id alone; datetime.now() is the clock.
process_payment_update(p) ==
    /\ pend[p].pc = "process"
    /\ clock < MaxClock
    /\ clock' = clock + 1
    /\ payments' = crud_payment_update(payments, pend[p].id, clock + 1)
    /\ resp' = Response("process_payment", pend[p].tok, pend[p].id, 200, "ok")
    /\ pend' = [pend EXCEPT ![p] = IdleProc]
    /\ ProcessFrame

InitProcess ==
    /\ users = RegisteredUsers
    /\ nextUid = MaxUsers + 1
    /\ removed = {}
    /\ jobs = [j \in JobIds |-> NoRow]
    /\ apps = [a \in AppIds |-> NoRow]
    /\ vreqs = [r \in ReqIds |-> NoRow]
    /\ nextRid = 1
    /\ profile = [u \in UserIds |-> EmptyProfile]
    /\ docs = {}
    /\ clock = 0
    /\ pend = [p \in Procs |-> IdleProc]
    /\ companies = [c \in CompanyIds |-> NoRow]
    /\ payments \in [PaymentIds -> {NoRow} \cup PaymentRows]
    /\ skills = [k \in SkillIds |-> NoRow]
    /\ benefits = [k \in SkillIds |-> NoRow]
    /\ notifications = << >>
    /\ batch = IdleBatch
    /\ resp = NoResp

NextProcess ==
    \/ \E p \in Procs, tok \in {ValidToken(1), ValidToken(2)}, id \in PaymentIds :
          process_payment_get(p, tok, id)
    \/ \E p \in Procs : process_payment_update(p)

SpecProcess == InitProcess /\ [][NextProcess]_vars

\* C19: process_payment changes a payment only if its status is pending, setting
\* it to completed with a payment_date; for a missing payment or one that is not
\* pending the call is answered 400 and the payment is unchanged, so two calls,
\* sequential or concurrent, complete a payment at most once.
C19_CompletedOnce ==
    [][/\ \A id \in PaymentIds :
             payments'[id] # payments[id] =>
                 /\ payments[id] # NoRow
                 /\ payments[id].status = "pending"
                 /\ payments'[id].status = "completed"
       /\ (/\ resp' # resp
           /\ resp'.op = "process_payment"
           /\ resp'.status \notin {401, 403}
           /\ IF payments[resp'.target] = NoRow THEN TRUE
              ELSE payments[resp'.target].status # "pending")
          => (resp'.status = 400 /\ payments' = payments)]_vars

(***************************************************************************)
(* Verified fields under concurrent reviews.  _update_profile_verification *)
(* reads users.profile_verification, extends the list in Python and writes *)
(* the whole value back: a read and a later write of one JSON column.      *)
(***************************************************************************)
FieldsFrame == UNCHANGED << users, nextUid, removed, jobs, apps, nextRid, docs, clock,
                            companies, payments, skills, benefits, notifications, batch >>

\* PUT /verification/requests/{request_id}: the endpoint's tests, the commit of
\* the request and, for approved / rejected, the read of the owner's profile
\* at the start of _update_profile_verification.
update_verification_request_read_profile(p, tok, id, upd) ==
    LET a == get_current_active_user(users, tok) IN
    /\ pend[p] = IdleProc
    /\ IF a.status # 200 THEN
          /\ resp' = Response("update_verification_request", tok, id, a.status, "auth")
          /\ UNCHANGED << vreqs, pend >>
       ELSE IF vreqs[id] = NoRow THEN
          /\ resp' = Response("update_verification_request", tok, id, 404, "missing")
          /\ UNCHANGED << vreqs, pend >>
       ELSE IF ~is_reviewer(users, a.uid) THEN
          /\ resp' = Response("update_verification_request", tok, id, 403, "perm")
          /\ UNCHANGED << vreqs, pend >>
       ELSE IF upd.status \in {"approved", "rejected"} THEN
          /\ vreqs' = service_update_verification_request(vreqs, id, upd, a.uid)
          /\ pend' = [pend EXCEPT ![p] =
                         [pc |-> "profile", tok |-> tok, id |-> id, status |-> upd.status,
                          user_id |-> vreqs[id].user_id,
                          verification_type |-> vreqs[id].verification_type,
                          current_verification |-> profile[vreqs[id].user_id]]]
          /\ UNCHANGED resp
       ELSE
          /\ vreqs' = service_update_verification_request(vreqs, id, upd, a.uid)
          /\ resp' = Response("update_verification_request", tok, id, 200, "other")
          /\ UNCHANGED pend
    /\ UNCHANGED profile
    /\ FieldsFrame

\* "user.profile_verification = new_verification; db.commit()": the value
\* computed from the profile that was read, and the handler's return.
update_profile_verification_commit(p) ==
    /\ pend[p].pc = "profile"
    /\ profile' = update_profile_verification(
                      [profile EXCEPT ![pend[p].user_id] = pend[p].current_verification],
                      pend[p].user_id, pend[p].verification_type, pend[p].status)
    /\ resp' = Response("update_verification_request", pend[p].tok, pend[p].id, 200,
                        pend[p].status)
    /\ pend' = [pend EXCEPT ![p] = IdleProc]
    /\ UNCHANGED vreqs
    /\ FieldsFrame

\* Two pending requests of user 2: identity and education.
FieldsRequests ==
    [r \in ReqIds |->
        [user_id |-> 2, verification_type |-> IF r = 1 THEN "identity" ELSE "education",
         status |-> "pending", reviewed_by |-> 0]]

InitFields ==
    /\ users = RegisteredUsers
    /\ nextUid = MaxUsers + 1
    /\ removed = {}
    /\ jobs = [j \in JobIds |-> NoRow]
    /\ apps = [a \in AppIds |-> NoRow]
    /\ vreqs = FieldsRequests
    /\ nextRid = MaxRows + 1
    /\ profile = [u \in UserIds |-> EmptyProfile]
    /\ docs = {}
    /\ clock = 0
    /\ pend = [p \in Procs |-> IdleProc]
    /\ companies = [c \in CompanyIds |-> NoRow]
    /\ payments = [c \in PaymentIds |-> NoRow]
    /\ skills = [k \in SkillIds |-> NoRow]
    /\ benefits = [k \in SkillIds |-> NoRow]
    /\ notifications = << >>
    /\ batch = IdleBatch
    /\ resp = NoResp

NextFields ==
    \/ \E p \in Procs, tok \in VerifTokens, id \in ReqIds, upd \in VerifUpdateInputs :
          update_verification_request_read_profile(p, tok, id, upd)
    \/ \E p \in Procs : update_profile_verification_commit(p)

SpecFields == InitFields /\ [][NextFields]_vars

\* C20: after an approval the owner's verified_fields contains every field of
\* the request's verification type, and those fields stay in verified_fields
\* through all later updates, concurrent approvals of other requests of the
\* user included; a rejection adds no field; after every approve or reject the
\* profile status is verified exactly when verified_fields is non-empty.
C20_VerifiedFieldsKept ==
    /\ []((resp.op = "update_verification_request" /\ resp.status = 200
           /\ resp.info = "approved")
          => TypeFields(vreqs[resp.target].verification_type)
                \subseteq profile[vreqs[resp.target].user_id].verified_fields)
    /\ [](\A u \in UserIds :
            profile[u].verified_by = "system"
            => (profile[u].status = "verified" <=> profile[u].verified_fields # {}))
    /\ [][\A u \in UserIds :
            /\ profile[u].verified_fields \subseteq profile'[u].verified_fields
            /\ (resp'.info = "rejected"
                => profile'[u].verified_fields = profile[u].verified_fields)]_vars

(***************************************************************************)
(* Login: api/v1/endpoints/auth.py login, CRUDUser.authenticate.           *)
(* Password hashing is an external collaborator: a hash is kept as the     *)
(* pair of a tag and the password it was made from.                        *)
(***************************************************************************)
Passwords == {"pw1", "pw2"}

\* get_password_hash
get_password_hash(password) == << "hash", password >>

\* verify_password
verify_password(password, hashed_password) ==
    hashed_password = get_password_hash(password)

LoginRows ==
    [email : Emails, is_active : BOOLEAN, is_superuser : {FALSE}, role : {"job_seeker"},
     hashed_password : {get_password_hash(pw) : pw \in Passwords}]

\* "response.data[0]" of CRUDUser.get_by_email: the first row with that email
\* (0 for None).
first_by_email(us, email) ==
    IF get_by_email(us, email) = {} THEN 0
    ELSE CHOOSE i \in get_by_email(us, email) : \A k \in get_by_email(us, email) : i <= k

\* The mutant returns the user without verifying the password.
authenticate_NoVerify(us, email, password) == first_by_email(us, email)

\* CRUDUser.authenticate: the user's id, 0 for None.
authenticate(us, email, password) ==
    LET user == first_by_email(us, email) IN
    IF user = 0 THEN 0
    ELSE IF ~ verify_password(password, us[user].hashed_password) THEN 0
    ELSE user

\* The body and status login answers with.
login_response(us, email, password) ==
    LET user == authenticate(us, email, password) IN
    IF user = 0
    THEN [status |-> 401, detail |-> "Incorrect email or password", access_token |-> NoToken]
    ELSE IF ~ us[user].is_active
    THEN [status |-> 400, detail |-> "Inactive user", access_token |-> NoToken]
    ELSE [status |-> 200, detail |-> "bearer", access_token |-> ValidToken(user)]

\* POST /auth/login
login(email, password) ==
    LET r == login_response(users, email, password) IN
    /\ resp' = Response("login", r.access_token, first_by_email(users, email), r.status,
                        [email |-> email, password |-> password, detail |-> r.detail])
    /\ UNCHANGED << users, nextUid, removed >>
    /\ UsersFrame

(***************************************************************************)
(* SpecLogin: any table of users with passwords; users log in and change   *)
(* their email.                                                            *)
(***************************************************************************)
InitLogin ==
    /\ users \in [UserIds -> {NoRow} \cup LoginRows]
    /\ nextUid = MaxUsers + 1
    /\ removed = {}
    /\ jobs = [j \in JobIds |-> NoRow]
    /\ apps = [a \in AppIds |-> NoRow]
    /\ vreqs = [r \in ReqIds |-> NoRow]
    /\ nextRid = 1
    /\ profile = [u \in UserIds |-> EmptyProfile]
    /\ docs = {}
    /\ clock = 0
    /\ pend = [p \in Procs |-> IdleProc]
    /\ companies = [c \in CompanyIds |-> NoRow]
    /\ payments = [c \in PaymentIds |-> NoRow]
    /\ skills = [k \in SkillIds |-> NoRow]
    /\ benefits = [k \in SkillIds |-> NoRow]
    /\ notifications = << >>
    /\ batch = IdleBatch
    /\ resp = NoResp

NextLogin ==
    \/ \E email \in Emails, password \in Passwords : login(email, password)
    \/ \E upd \in UserUpdateInputs : update_user_me(ValidToken(1), upd)

SpecLogin == InitLogin /\ [][NextLogin]_vars

\* C21: login answers an unregistered email exactly as it answers a registered
\* email with a wrong password (401, the same detail, no token), whether the
\* account is active or not; a token is issued only when the email is stored,
\* the password verifies and the user is active.
C21_LoginIndistinguishable ==
    /\ \A e1, e2 \in Emails, p1, p2 \in Passwords :
          (/\ get_by_email(users, e1) = {}
           /\ get_by_email(users, e2) # {}
           /\ ~ verify_password(p2, users[first_by_email(users, e2)].hashed_password))
          => (/\ login_response(users, e1, p1) = login_response(users, e2, p2)
              /\ login_response(users, e1, p1).status = 401
              /\ login_response(users, e1, p1).access_token = NoToken)
    /\ (resp.op = "login" /\ resp.tok # NoToken) =>
          /\ resp.status = 200
          /\ resp.target \in get_by_email(users, resp.info.email)
          /\ resp.tok = ValidToken(resp.target)
          /\ verify_password(resp.info.password, users[resp.target].hashed_password)
          /\ users[resp.target].is_active

\* A login with a wrong password for the email of an inactive account was
\* answered 401 while another email is not registered.
C21_Witness ==
    /\ resp.op = "login" /\ resp.status = 401
    /\ resp.target # 0
    /\ ~ users[resp.target].is_active
    /\ users[resp.target].email = resp.info.email
    /\ \E e \in Emails : get_by_email(users, e) = {}

\* C22: the status of a stored application changes only through a request of a
\* superuser; an update_application request by the applicant never changes the
\* stored status of their own application.
C22_StatusBySuperuserOnly ==
    [][\A i \in AppIds :
          (/\ apps[i] # NoRow
           /\ apps'[i] # NoRow
           /\ apps'[i].status # apps[i].status)
          => (/\ get_current_active_user(users, resp'.tok).status = 200
              /\ users[resp'.tok.sub].is_superuser)]_vars

(***************************************************************************)
(* Payments and their payment_date: create_payment, update_payment and     *)
(* process_payment of payments.py over CRUDPayment.  PaymentCreate carries *)
(* the status of PaymentBase; payment_date 0 is null, datetime.now() is    *)
(* the clock.                                                              *)
(***************************************************************************)
PaymentBodies == [user_id : {1, 2}, status : PaymentStatuses]
PaymentUpdateInputs == [status : PaymentStatuses \cup {Unset}]

\* CRUDPayment.create: the body as given; payment_date is not written.
CRUDPayment_create(ps, id, payment_in) ==
    [ps EXCEPT ![id] = [user_id |-> payment_in.user_id, status |-> payment_in.status,
                        payment_date |-> 0]]

\* CRUDPayment.update: the fields that were set; payment_date only when the
\* update sets status to completed.
CRUDPayment_update(ps, id, upd, now) ==
    IF upd.status = Unset THEN ps
    ELSE [ps EXCEPT ![id] = [@ EXCEPT !.status = upd.status,
                                      !.payment_date = IF upd.status = "completed"
                                                       THEN now ELSE @]]

PaymentsFrame == UNCHANGED << users, nextUid, removed, jobs, apps, vreqs, nextRid, profile,
                              docs, pend, companies, skills, benefits, notifications, batch >>

\* POST /payments/ with the status of the body.
create_payment_as_given(tok, payment_in) ==
    LET a == get_current_active_user(users, tok) IN
    /\ IF a.status # 200 THEN
          /\ resp' = Response("create_payment", tok, 0, a.status, "auth")
          /\ UNCHANGED payments
       ELSE IF ~users[a.uid].is_superuser /\ payment_in.user_id # a.uid THEN
          /\ resp' = Response("create_payment", tok, 0, 403, "perm")
          /\ UNCHANGED payments
       ELSE
          /\ FreeIds(payments) # {}
          /\ payments' = CRUDPayment_create(payments, NewId(payments), payment_in)
          /\ resp' = Response("create_payment", tok, NewId(payments), 200, "ok")
    /\ UNCHANGED clock
    /\ PaymentsFrame

\* PUT /payments/{payment_id}: superuser only, 404 when the row is not stored.
update_payment(tok, payment_id, payment_in) ==
    LET a == get_current_active_user(users, tok) IN
    /\ IF a.status # 200 THEN
          /\ resp' = Response("update_payment", tok, payment_id, a.status, "auth")
          /\ UNCHANGED << payments, clock >>
       ELSE IF ~users[a.uid].is_superuser THEN
          /\ resp' = Response("update_payment", tok, payment_id, 403, "perm")
          /\ UNCHANGED << payments, clock >>
       ELSE IF payments[payment_id] = NoRow THEN
          /\ resp' = Response("update_payment", tok, payment_id, 404, "missing")
          /\ UNCHANGED << payments, clock >>
       ELSE
          /\ clock < MaxClock
          /\ payments' = CRUDPayment_update(payments, payment_id, payment_in, clock + 1)
          /\ clock' = clock + 1
          /\ resp' = Response("update_payment", tok, payment_id, 200, "ok")
    /\ PaymentsFrame

\* POST /payments/{payment_id}/process, one request at a time.
process_payment(tok, payment_id) ==
    LET a == get_current_active_user(users, tok) IN
    /\ IF a.status # 200 THEN
          /\ resp' = Response("process_payment", tok, payment_id, a.status, "auth")
          /\ UNCHANGED << payments, clock >>
       ELSE IF ~users[a.uid].is_superuser THEN
          /\ resp' = Response("process_payment", tok, payment_id, 403, "perm")
          /\ UNCHANGED << payments, clock >>
       ELSE IF payments[payment_id] = NoRow THEN
          /\ resp' = Response("process_payment", tok, payment_id, 400, "Payment not found")
          /\ UNCHANGED << payments, clock >>
       ELSE IF payments[payment_id].status # "pending" THEN
          /\ resp' = Response("process_payment", tok, payment_id, 400, "not pending")
          /\ UNCHANGED << payments, clock >>
       ELSE
          /\ clock < MaxClock
          /\ payments' = CRUDPayment_update(payments, payment_id,
                                            [status |-> "completed"], clock + 1)
          /\ clock' = clock + 1
          /\ resp' = Response("process_payment", tok, payment_id, 200, "ok")
    /\ PaymentsFrame

NextPayments ==
    \/ \E tok \in {ValidToken(1), ValidToken(2)}, payment_in \in PaymentBodies :
          create_payment_as_given(tok, payment_in)
    \/ \E tok \in {ValidToken(1), ValidToken(2)}, id \in PaymentIds,
          payment_in \in PaymentUpdateInputs : update_payment(tok, id, payment_in)
    \/ \E tok \in {ValidToken(1), ValidToken(2)}, id \in PaymentIds :
          process_payment(tok, id)

SpecPayments == InitApps /\ [][NextPayments]_vars

\* C23: after any sequence of create_payment, update_payment and
\* process_payment requests every stored payment with status completed has a
\* payment_date, and a payment has a payment_date only through a superuser's
\* update_payment or process_payment that completed it.
C23_CompletedHasDate ==
    /\ [](\A i \in Stored(payments) :
             payments[i].status = "completed" => payments[i].payment_date # 0)
    /\ [][\A i \in PaymentIds :
             (/\ payments'[i] # NoRow
              /\ payments'[i].payment_date # 0
              /\ payments'[i] # payments[i]
              /\ IF payments[i] = NoRow THEN TRUE
                 ELSE payments[i].payment_date # payments'[i].payment_date)
             => (/\ resp'.op \in {"update_payment", "process_payment"}
                 /\ users[resp'.tok.sub].is_superuser
                 /\ payments'[i].status = "completed")]_vars

(***************************************************************************)
(* Notifications: crud/crud_notification.py behind the read endpoints of   *)
(* notifications.py.  The table is the sequence of its rows in the order   *)
(* of created_at; a row's id is its position; read_at 0 is null.           *)
(***************************************************************************)
\* "limit: int = 100" of CRUDNotification.get_by_user.
NotifLimit == 100
NotificationStatus == {"unread", "read", "archived"}
NotifCounts == {1, 2, NotifLimit, NotifLimit + 1}

\* A user's notifications, oldest first: the oldest with one status, the later
\* ones with another, followed by one unread notification of another user.
NotifTable(n, oldest, later) ==
    [i \in 1 .. n + 1 |->
        IF i = n + 1 THEN [user_id |-> 3, status |-> "unread", read_at |-> 0]
        ELSE [user_id |-> 2, status |-> IF i = 1 THEN oldest ELSE later, read_at |-> 0]]

\* The ids of the user's rows.
notif_of_user(ns, user_id) == {i \in DOMAIN ns : ns[i].user_id = user_id}

\* The offset of row i in order("created_at", desc=True): the number of the
\* user's rows created after it.
NewestFirst(ns, user_id, i) == Cardinality({j \in notif_of_user(ns, user_id) : j > i})

\* CRUDNotification.get_by_user: the ids of range(skip, skip + limit - 1) of
\* the user's rows, newest first.
notif_get_by_user(ns, user_id, skip, limit) ==
    {i \in notif_of_user(ns, user_id) :
        /\ NewestFirst(ns, user_id, i) >= skip
        /\ NewestFirst(ns, user_id, i) <= skip + limit - 1}

\* CRUDNotification.update with {"status": READ, "read_at": now}.
notif_mark_read(row, now) == [row EXCEPT !.status = "read", !.read_at = now]

\* CRUDNotification.mark_all_as_read: the table after the loop.
mark_all_as_read(ns, user_id, now) ==
    LET ids == notif_get_by_user(ns, user_id, 0, NotifLimit)
    IN [i \in 1 .. Len(ns) |->
           IF i \in ids /\ ns[i].status = "unread" THEN notif_mark_read(ns[i], now)
           ELSE ns[i]]

NotifFrame == UNCHANGED << users, nextUid, removed, jobs, apps, vreqs, nextRid, profile,
                           docs, pend, companies, payments, skills, benefits, batch >>

\* POST /notifications/read-all
mark_all_notifications_as_read(tok) ==
    LET a == get_current_active_user(users, tok) IN
    /\ IF a.status # 200 THEN
          /\ resp' = Response("mark_all_notifications_as_read", tok, 0, a.status, "auth")
          /\ UNCHANGED << notifications, clock >>
       ELSE
          /\ clock < MaxClock
          /\ clock' = clock + 1
          /\ notifications' = mark_all_as_read(notifications, a.uid, clock + 1)
          /\ resp' = Response("mark_all_notifications_as_read", tok, a.uid, 200, "ok")
    /\ NotifFrame

\* POST /notifications/{notification_id}/read: 404 when not stored, 403 unless
\* the caller is a superuser or the notification's user, 400 when already read.
mark_notification_as_read(tok, notification_id) ==
    LET a == get_current_active_user(users, tok) IN
    /\ IF a.status # 200 THEN
          /\ resp' = Response("mark_notification_as_read", tok, notification_id,
                              a.status, "auth")
          /\ UNCHANGED << notifications, clock >>
       ELSE IF notification_id \notin DOMAIN notifications THEN
          /\ resp' = Response("mark_notification_as_read", tok, notification_id,
                              404, "missing")
          /\ UNCHANGED << notifications, clock >>
       ELSE IF ~users[a.uid].is_superuser
               /\ notifications[notification_id].user_id # a.uid THEN
          /\ resp' = Response("mark_notification_as_read", tok, notification_id,
                              403, "perm")
          /\ UNCHANGED << notifications, clock >>
       ELSE IF notifications[notification_id].status = "read" THEN
          /\ resp' = Response("mark_notification_as_read", tok, notification_id,
                              400, "already read")
          /\ UNCHANGED << notifications, clock >>
       ELSE
          /\ clock < MaxClock
          /\ clock' = clock + 1
          /\ notifications' = [notifications EXCEPT ![notification_id] =
                                  notif_mark_read(@, clock + 1)]
          /\ resp' = Response("mark_notification_as_read", tok, notification_id,
                              200, "ok")
    /\ NotifFrame

InitNotify ==
    /\ users = RegisteredUsers
    /\ nextUid = MaxUsers + 1
    /\ removed = {}
    /\ jobs = [j \in JobIds |-> NoRow]
    /\ apps = [a \in AppIds |-> NoRow]
    /\ vreqs = [r \in ReqIds |-> NoRow]
    /\ nextRid = 1
    /\ profile = [u \in UserIds |-> EmptyProfile]
    /\ docs = {}
    /\ clock = 0
    /\ pend = [p \in Procs |-> IdleProc]
    /\ companies = [c \in CompanyIds |-> NoRow]
    /\ payments = [c \in PaymentIds |-> NoRow]
    /\ skills = [k \in SkillIds |-> NoRow]
    /\ benefits = [k \in SkillIds |-> NoRow]
    /\ notifications \in {NotifTable(n, oldest, later) :
                             n \in NotifCounts, oldest \in NotificationStatus,
                             later \in NotificationStatus}
    /\ batch = IdleBatch
    /\ resp = NoResp

NotifTokens == {ValidToken(2), ValidToken(3), [sub |-> 2, kind |-> "badsig"]}

NextNotify ==
    \/ \E tok \in NotifTokens : mark_all_notifications_as_read(tok)
    \/ \E tok \in NotifTokens, id \in {1, 2} : mark_notification_as_read(tok, id)

SpecNotify == InitNotify /\ [][NextNotify]_vars

\* C24: when mark_all_as_read for a user returns, the user has no unread
\* notification, however many notifications the user has; every notification
\* it changed is read with read_at set, and the user's read or archived
\* notifications and all other users' notifications are unchanged.
C24_AllRead ==
    /\ []((resp.op = "mark_all_notifications_as_read" /\ resp.status = 200)
          => \A i \in DOMAIN notifications :
                notifications[i].user_id = resp.target
                => notifications[i].status # "unread")
    /\ [][(resp'.op = "mark_all_notifications_as_read" /\ resp' # resp)
          => \A i \in DOMAIN notifications :
                notifications'[i] # notifications[i]
                => (/\ notifications[i].user_id = resp'.target
                    /\ notifications[i].status = "unread"
                    /\ notifications'[i].status = "read"
                    /\ notifications'[i].read_at # 0)]_vars

====
